---- MODULE Spec2Model ----
(***************************************************************************)
(* Model of the embedding pipeline and similarity matching of              *)
(* react-native-facial-recognition:                                        *)
(*   src/src/services/faceRecognitionService.ts                            *)
(*       PhotoProcessingService.calculateCropRegion                        *)
(*       FaceRecognitionService.l2Normalize, calculateCosineSimilarity,    *)
(*       compareEmbeddingsRaw, compareFaces, generateFaceEmbedding         *)
(*   src/src/screens/face-verification.tsx   verifyFace                    *)
(*                                                                         *)
(* Numbers.  The source computes in IEEE doubles.  The model computes the  *)
(* same expressions exactly:                                               *)
(*  - crop geometry in fifths of a pixel (bounding boxes are whole pixels, *)
(*    padding is 0.2 = 1/5, so every intermediate value is a whole number  *)
(*    of fifths and Math.round never sees a tie);                          *)
(*  - vectors as integer components over a common square-root denominator  *)
(*    (c[i] / sqrt(k)), and scalars as p + n / sqrt(d), which is closed    *)
(*    under the operations the matcher performs.                           *)
(* Rounding error of the doubles (about 1e-16 relative) is not modelled.   *)
(***************************************************************************)
EXTENDS Integers, Sequences, FiniteSets, TLC

VARIABLES
    crop,               \* last call of calculateCropRegion: arguments, result
    cmp,                \* last call of the matcher / post-processor: arguments, result
    selectedFace,       \* FaceVerificationScreen prop: the registered face
    isVerifying,        \* FaceVerificationScreen state
    verificationResult, \* FaceVerificationScreen state
    attempts,           \* where each invocation of verifyFace stands
    alerts,             \* number of Alert.alert dialogs raised
    timers,             \* pending setTimeout(..., 3000) callbacks
    now,                \* Date.now(), in milliseconds
    lastVerificationTime, \* FaceVerificationScreen ref
    detections,         \* the face-detection callbacks that started an attempt
    resetSince,         \* resetVerification has run since the last attempt started
    img,                \* last run of the image normalisation of generateFaceEmbedding
    modelSession,       \* FaceRecognitionService.modelSession: 0 (null) or a session
    isModelLoading,     \* FaceRecognitionService.isModelLoading
    model,              \* FaceDetectionService.model: 0 (null) or a graph model
    isLoading,          \* FaceDetectionService.isLoading
    created,            \* sessions / graph models created so far, per service
    loads,              \* where each invocation of loadModel stands, and its result
    embeds,             \* where each invocation of generateFaceEmbedding stands
    tensors,            \* the tf tensors allocated and not disposed
    store,              \* AsyncStorage, key 'registered_faces': the faces saved
    registering,        \* FaceRegistrationScreen state
    registered,         \* FaceRegistrationScreen state
    regs,               \* where each invocation of registerFace, or of a storage method, stands
    gallery,            \* where processGalleryPhotoForVerification stands
    screen              \* the screen that is mounted

cameraVars == <<now, lastVerificationTime, detections, resetSince>>
screenVars ==
    <<selectedFace, isVerifying, verificationResult, attempts, alerts, timers, cameraVars>>
engineVars == <<modelSession, isModelLoading, model, isLoading, created, loads>>
callVars == <<embeds, tensors, store, registering, registered, regs, gallery, screen>>
pipelineVars == <<img, engineVars, callVars>>
vars == <<crop, cmp, screenVars, pipelineVars>>

NoCall == [op |-> "none"]

\* FaceVerificationScreen as mounted with the registered face whose stored
\* embedding is e (face-verification.tsx lines 23-36)
MaxAttempts == 2
\* the services as constructed and no pipeline call made
NotCalled == [pc |-> "notCalled"]
EnginesAsConstructed(callers) ==
    /\ modelSession = 0
    /\ isModelLoading = FALSE
    /\ model = 0
    /\ isLoading = FALSE
    /\ created = [recognition |-> 0, detection |-> 0]
    /\ loads = [c \in callers |-> NotCalled]
\* no call of generateFaceEmbedding made by any of callers, nothing stored,
\* the registration screen as mounted (face-registration.tsx lines 24-25)
CallsIdle(callers, registrations, mounted) ==
    /\ embeds = [c \in callers |-> NotCalled]
    /\ tensors = {}
    /\ store = <<>>
    /\ registering = FALSE
    /\ registered = FALSE
    /\ regs = [j \in registrations |-> NotCalled]
    /\ gallery = NotCalled
    /\ screen = mounted
PipelineIdle == img = NoCall /\ EnginesAsConstructed({}) /\ CallsIdle({}, {}, "none")
Null == [set |-> FALSE]
\* the reading of the clock when the screen is mounted (a time of day, far
\* above the 4000 ms of the throttle)
StartTime == 5000
ScreenMounted(e) ==
    /\ selectedFace = [embedding |-> [c |-> e, k |-> 1]]
    /\ isVerifying = FALSE
    /\ verificationResult = Null
    /\ attempts = [i \in 1 .. MaxAttempts |-> "notCalled"]
    /\ alerts = 0
    /\ timers = 0
    /\ now = StartTime
    /\ lastVerificationTime = 0
    /\ detections = [i \in 1 .. MaxAttempts |-> NotCalled]
    /\ resetSince = FALSE

Max(a, b) == IF a >= b THEN a ELSE b
Min(a, b) == IF a <= b THEN a ELSE b

(***************************************************************************)
(* PhotoProcessingService.calculateCropRegion                              *)
(***************************************************************************)
PaddingDen == 5         \* padding = 0.2 = 1 / PaddingDen
minSize == 50
safetyMargin == 5

\* Math.round of a value given in fifths: floor(v/5 + 1/2)
Round5(v) == (2 * v + PaddingDen) \div (2 * PaddingDen)

\* ClampedRegion without the minimum size of lines 405-407
ClampedRegion_noMinSize(bounds, dimensions) ==
    LET clampedX   == Max(0, PaddingDen * bounds.x - bounds.width)
        clampedY   == Max(0, PaddingDen * bounds.y - bounds.height)
        finalWidth  == Min(PaddingDen * bounds.x + 6 * bounds.width - clampedX,
                           PaddingDen * dimensions.width - clampedX)
        finalHeight == Min(PaddingDen * bounds.y + 6 * bounds.height - clampedY,
                           PaddingDen * dimensions.height - clampedY)
    IN  [originX |-> Round5(clampedX), originY |-> Round5(clampedY),
         width   |-> Round5(finalWidth), height  |-> Round5(finalHeight)]

\* ClampedRegion without the clamp of the origin of lines 390-395
ClampedRegion_noOriginClamp(bounds, dimensions) ==
    LET paddedX    == PaddingDen * bounds.x - bounds.width
        paddedY    == PaddingDen * bounds.y - bounds.height
        maxWidth   == PaddingDen * dimensions.width - paddedX
        maxHeight  == PaddingDen * dimensions.height - paddedY
        safeWidth  == Min(Max(Min(7 * bounds.width, maxWidth),
                              PaddingDen * minSize), maxWidth)
        safeHeight == Min(Max(Min(7 * bounds.height, maxHeight),
                              PaddingDen * minSize), maxHeight)
    IN  [originX |-> Round5(paddedX), originY |-> Round5(paddedY),
         width   |-> Round5(safeWidth), height  |-> Round5(safeHeight)]

\* ClampedRegion with the padding added to the size once instead of twice
ClampedRegion_paddingOnce(bounds, dimensions) ==
    LET paddedX    == PaddingDen * bounds.x - bounds.width
        paddedY    == PaddingDen * bounds.y - bounds.height
        clampedX   == Max(0, paddedX)
        clampedY   == Max(0, paddedY)
        maxWidth   == PaddingDen * dimensions.width - clampedX
        maxHeight  == PaddingDen * dimensions.height - clampedY
        safeWidth  == Min(Max(Min(6 * bounds.width - (clampedX - paddedX), maxWidth),
                              PaddingDen * minSize), maxWidth)
        safeHeight == Min(Max(Min(6 * bounds.height - (clampedY - paddedY), maxHeight),
                              PaddingDen * minSize), maxHeight)
    IN  [originX |-> Round5(clampedX), originY |-> Round5(clampedY),
         width   |-> Round5(safeWidth), height  |-> Round5(safeHeight)]

\* lines 377-418: padding, clamping of the origin, clamping to the image,
\* minimum size, rounding.  All intermediate values in fifths of a pixel.
ClampedRegion(bounds, dimensions) ==
    LET imgWidth5     == PaddingDen * dimensions.width
        imgHeight5    == PaddingDen * dimensions.height
        paddingX      == bounds.width       \* 0.2 * width, in fifths
        paddingY      == bounds.height
        paddedX       == PaddingDen * bounds.x - paddingX
        paddedY       == PaddingDen * bounds.y - paddingY
        paddedWidth0  == PaddingDen * bounds.width + 2 * paddingX
        paddedHeight0 == PaddingDen * bounds.height + 2 * paddingY
        clampedX      == Max(0, paddedX)
        clampedY      == Max(0, paddedY)
        paddedWidth   == paddedWidth0 - (clampedX - paddedX)
        paddedHeight  == paddedHeight0 - (clampedY - paddedY)
        maxWidth      == imgWidth5 - clampedX
        maxHeight     == imgHeight5 - clampedY
        finalWidth    == Min(paddedWidth, maxWidth)
        finalHeight   == Min(paddedHeight, maxHeight)
        safeWidth     == Min(Max(finalWidth, PaddingDen * minSize), maxWidth)
        safeHeight    == Min(Max(finalHeight, PaddingDen * minSize), maxHeight)
    IN  [originX |-> Round5(clampedX), originY |-> Round5(clampedY),
         width   |-> Round5(safeWidth), height  |-> Round5(safeHeight)]

\* ApplySafetyMargin without the fitting of lines 434-446: only the cap at
\* min(imgWidth, imgHeight) - safetyMargin
ApplySafetyMargin_capOnly(r, dimensions) ==
    LET maxCropDim == Min(dimensions.width, dimensions.height) - safetyMargin
    IN  [r EXCEPT !.width  = IF r.width > maxCropDim THEN maxCropDim ELSE r.width,
                  !.height = IF r.height > maxCropDim THEN maxCropDim ELSE r.height]

\* lines 420-446: cap at min(imgWidth, imgHeight) - safetyMargin, then fit
\* both sides inside the margin when either edge is past it.
ApplySafetyMargin(r, dimensions) ==
    LET imgWidth         == dimensions.width
        imgHeight        == dimensions.height
        maxAllowedWidth  == imgWidth - safetyMargin
        maxAllowedHeight == imgHeight - safetyMargin
        maxCropDim       == Min(imgWidth, imgHeight) - safetyMargin
        w1 == IF r.width > maxCropDim THEN maxCropDim ELSE r.width
        h1 == IF r.height > maxCropDim THEN maxCropDim ELSE r.height
    IN  IF r.originX + w1 > maxAllowedWidth \/ r.originY + h1 > maxAllowedHeight
        THEN [r EXCEPT !.width  = Min(w1, maxAllowedWidth - r.originX),
                       !.height = Min(h1, maxAllowedHeight - r.originY)]
        ELSE [r EXCEPT !.width = w1, !.height = h1]

\* isValidCrop without the tests of the size (lines 455-456)
isValidCrop_sizeNotTested(r, dimensions) ==
    /\ r.originX >= 0
    /\ r.originY >= 0
    /\ r.originX + r.width < dimensions.width
    /\ r.originY + r.height < dimensions.height

\* lines 448-458
isValidCrop(r, dimensions) ==
    /\ r.originX >= 0
    /\ r.originY >= 0
    /\ r.width > 0
    /\ r.height > 0
    /\ r.originX + r.width < dimensions.width
    /\ r.originY + r.height < dimensions.height

\* FallbackCrop with the square as large as the smaller side (the 0.5 lost)
FallbackCrop_fullSize(dimensions) ==
    LET imgWidth  == dimensions.width
        imgHeight == dimensions.height
        size      == Min(imgWidth, imgHeight)
        originX   == (2 * (imgWidth \div 2) - size) \div 2
        originY   == (2 * (imgHeight \div 2) - size) \div 2
    IN  [originX |-> originX, originY |-> originY,
         width   |-> IF originX + size >= imgWidth
                     THEN imgWidth - originX - safetyMargin ELSE size,
         height  |-> IF originY + size >= imgHeight
                     THEN imgHeight - originY - safetyMargin ELSE size]

\* lines 472-494: centred square of half the smaller side
FallbackCrop(dimensions) ==
    LET imgWidth  == dimensions.width
        imgHeight == dimensions.height
        maxSize   == Min(imgWidth, imgHeight)
        size      == maxSize \div 2                 \* Math.floor(maxSize * 0.5)
        centerX   == imgWidth \div 2
        centerY   == imgHeight \div 2
        originX   == (2 * centerX - size) \div 2    \* Math.floor(centerX - size / 2)
        originY   == (2 * centerY - size) \div 2
    IN  [originX |-> originX, originY |-> originY,
         width   |-> IF originX + size >= imgWidth
                     THEN imgWidth - originX - safetyMargin ELSE size,
         height  |-> IF originY + size >= imgHeight
                     THEN imgHeight - originY - safetyMargin ELSE size]

\* calculateCropRegion returning the rounded clamped region of line 418,
\* without the safety margin, the validation and the fallback
calculateCropRegion_unchecked(bounds, dimensions) ==
    [region |-> ClampedRegion(bounds, dimensions), fallback |-> FALSE]

\* lines 371-497: the region returned, and whether the fallback was taken
calculateCropRegion(bounds, dimensions) ==
    LET r == ApplySafetyMargin(ClampedRegion(bounds, dimensions), dimensions)
    IN  IF isValidCrop(r, dimensions)
        THEN [region |-> r, fallback |-> FALSE]
        ELSE [region |-> FallbackCrop(dimensions), fallback |-> TRUE]

\* Inputs of the crop calculator: whole-pixel boxes as the detector reports
\* them (inside, across and outside the frame, degenerate sizes included)
\* on degenerate, tiny, small and camera-sized frames.
MaxTinyDim == 3
FrameDims == (-1 .. MaxTinyDim) \cup {40, 56, 100, 480, 640, 1080, 1920}
BoxCoords == {-500, -7, 0, 60, 100, 600, 2000}
BoxSizes == {-4, 0, 1, 30, 200}

CalculateCropRegion ==
    /\ crop = NoCall
    /\ \E x \in BoxCoords, y \in BoxCoords, w \in BoxSizes, h \in BoxSizes,
          fw \in FrameDims, fh \in FrameDims :
         LET bounds     == [x |-> x, y |-> y, width |-> w, height |-> h]
             dimensions == [width |-> fw, height |-> fh]
             res        == calculateCropRegion(bounds, dimensions)
         IN  /\ crop' = [op |-> "calculateCropRegion", bounds |-> bounds,
                         dimensions |-> dimensions,
                         region |-> res.region, fallback |-> res.fallback]
             /\ UNCHANGED <<cmp, screenVars, pipelineVars>>

\* Inputs around the safety margin: boxes whose padded origin falls within
\* EdgeDist pixels of the line safetyMargin before the right and the bottom
\* edge, on small frames
EdgeDist == 2
EdgeFrameDims == {6, 7, 40, 56}
EdgeBoxSizes == {1, 5, 30}

CalculateCropRegionNearEdge ==
    /\ crop = NoCall
    /\ \E fw \in EdgeFrameDims, fh \in EdgeFrameDims,
          dx \in -EdgeDist .. EdgeDist, dy \in -EdgeDist .. EdgeDist,
          w \in EdgeBoxSizes, h \in EdgeBoxSizes :
         LET bounds     == [x |-> fw - safetyMargin + dx + w \div PaddingDen,
                            y |-> fh - safetyMargin + dy + h \div PaddingDen,
                            width |-> w, height |-> h]
             dimensions == [width |-> fw, height |-> fh]
             res        == calculateCropRegion(bounds, dimensions)
         IN  /\ crop' = [op |-> "calculateCropRegion", bounds |-> bounds,
                         dimensions |-> dimensions,
                         region |-> res.region, fallback |-> res.fallback]
             /\ UNCHANGED <<cmp, screenVars, pipelineVars>>

InitCrop == crop = NoCall /\ cmp = NoCall /\ ScreenMounted(<<>>) /\ PipelineIdle
NextCrop == CalculateCropRegion \/ CalculateCropRegionNearEdge
SpecCrop == InitCrop /\ [][NextCrop]_vars

(***************************************************************************)
(* Properties of calculateCropRegion (checked under SpecCrop)              *)
(***************************************************************************)
CropCalled == crop.op = "calculateCropRegion"

\* a bounding box of positive size on a frame of positive size
CropInputValid ==
    /\ crop.bounds.width > 0 /\ crop.bounds.height > 0
    /\ crop.dimensions.width > 0 /\ crop.dimensions.height > 0

RegionInsideFrame ==
    /\ crop.region.originX >= 0
    /\ crop.region.originY >= 0
    /\ crop.region.originX + crop.region.width < crop.dimensions.width
    /\ crop.region.originY + crop.region.height < crop.dimensions.height

\* C1: for every bounding box of positive size and every frame of positive
\* whole size, the returned region has originX >= 0, originY >= 0,
\* originX + width < frame width and originY + height < frame height.
C1_RegionNeverCrossesBounds ==
    (CropCalled /\ CropInputValid) => RegionInsideFrame

\* a box across the right edge of a 640x480 frame, fitted inside the margin
C1_Witness ==
    /\ CropCalled
    /\ crop.bounds = [x |-> 600, y |-> 100, width |-> 200, height |-> 30]
    /\ crop.dimensions = [width |-> 640, height |-> 480]
    /\ ~crop.fallback
    /\ crop.region.originX + crop.region.width = 640 - safetyMargin

PathologicalBox == [x |-> -500, y |-> -500, width |-> 1, height |-> 1]

\* C3 as claimed: for the box {x:-500, y:-500, width:1, height:1} on a
\* 640x480 frame the centred fallback is returned: side 240, origin (200,120).
C3_Original_PathologicalBoxFallsBack ==
    (/\ CropCalled
     /\ crop.bounds = PathologicalBox
     /\ crop.dimensions = [width |-> 640, height |-> 480])
    => (/\ crop.fallback
        /\ crop.region = [originX |-> 200, originY |-> 120,
                           width |-> 240, height |-> 240])

\* C3 amended: for a box of positive size whose padded extent lies wholly
\* left of and above the frame (x + 1.2 w <= 0, y + 1.2 h <= 0), on a frame
\* of at least 55x55, the clamping steps return the minimum-size region
\* {originX: 0, originY: 0, width: 50, height: 50}; the fallback is not taken.
C3_OutsideTopLeftGivesMinRegion ==
    (/\ CropCalled
     /\ crop.bounds.width > 0 /\ crop.bounds.height > 0
     /\ 5 * crop.bounds.x + 6 * crop.bounds.width <= 0
     /\ 5 * crop.bounds.y + 6 * crop.bounds.height <= 0
     /\ crop.dimensions.width >= minSize + safetyMargin
     /\ crop.dimensions.height >= minSize + safetyMargin)
    => (/\ ~crop.fallback
        /\ crop.region = [originX |-> 0, originY |-> 0,
                           width |-> minSize, height |-> minSize])

C3_Witness ==
    /\ CropCalled
    /\ crop.bounds = PathologicalBox
    /\ crop.dimensions = [width |-> 640, height |-> 480]
    /\ crop.region = [originX |-> 0, originY |-> 0, width |-> 50, height |-> 50]
    /\ ~crop.fallback

RegionValid ==
    /\ RegionInsideFrame
    /\ crop.region.width > 0
    /\ crop.region.height > 0

\* C4 as claimed: for every input, degenerate boxes and degenerate frames
\* included, the result has a non-negative origin, positive width and height
\* and right/bottom edges strictly inside the frame.
C4_Original_AlwaysValidRegion ==
    CropCalled => RegionValid

\* C4 amended: for every bounding box, degenerate ones included, and every
\* frame of at least 2x2 pixels, the result has a non-negative origin,
\* positive width and height and right/bottom edges strictly inside the frame.
C4_ValidRegionOnFramesFromTwo ==
    (CropCalled /\ crop.dimensions.width >= 2 /\ crop.dimensions.height >= 2)
    => RegionValid

\* a box of negative size is absorbed by the fallback on the smallest frame
C4_Witness ==
    /\ CropCalled
    /\ crop.bounds.width < 0 /\ crop.bounds.height < 0
    /\ crop.dimensions = [width |-> 2, height |-> 2]
    /\ crop.fallback
    /\ crop.region = [originX |-> 0, originY |-> 0, width |-> 1, height |-> 1]

ScenarioBox == [x |-> 100, y |-> 100, width |-> 200, height |-> 200]
ScenarioFrame == [width |-> 1080, height |-> 1920]

\* C5 as claimed: for {x:100, y:100, width:200, height:200} on 1080x1920 the
\* region has origin (80,80) up to rounding and size 280x280.
C5_Original_ScenarioOriginNear80 ==
    (CropCalled /\ crop.bounds = ScenarioBox /\ crop.dimensions = ScenarioFrame)
    => (/\ crop.region.originX \in 79 .. 81
        /\ crop.region.originY \in 79 .. 81
        /\ crop.region.width = 280
        /\ crop.region.height = 280)

\* C5 amended: for {x:100, y:100, width:200, height:200} on 1080x1920 the
\* region has origin (60,60) (the box origin less 40 pixels of padding) and
\* size 280x280, lying inside the frame.
C5_ScenarioRegion ==
    (CropCalled /\ crop.bounds = ScenarioBox /\ crop.dimensions = ScenarioFrame)
    => (/\ crop.region = [originX |-> 60, originY |-> 60,
                           width |-> 280, height |-> 280]
        /\ ~crop.fallback
        /\ RegionInsideFrame)

C5_Witness ==
    /\ CropCalled
    /\ crop.bounds = ScenarioBox
    /\ crop.dimensions = ScenarioFrame
    /\ crop.region.originX = 60

\* the rounded, clamped padded origin, from the arguments
PaddedOriginX == Round5(Max(0, PaddingDen * crop.bounds.x - crop.bounds.width))
PaddedOriginY == Round5(Max(0, PaddingDen * crop.bounds.y - crop.bounds.height))
NoRoom ==
    \/ PaddedOriginX >= crop.dimensions.width - safetyMargin
    \/ PaddedOriginY >= crop.dimensions.height - safetyMargin
HalfOfSmallerSide == Min(crop.dimensions.width, crop.dimensions.height) \div 2
\* the square of side HalfOfSmallerSide about the centre of the frame, the
\* origin within a pixel and a half of its exact place
CentredSquare ==
    /\ crop.region.width = HalfOfSmallerSide
    /\ crop.region.height = HalfOfSmallerSide
    /\ 2 * crop.region.originX + HalfOfSmallerSide \in
            crop.dimensions.width - 3 .. crop.dimensions.width
    /\ 2 * crop.region.originY + HalfOfSmallerSide \in
            crop.dimensions.height - 3 .. crop.dimensions.height

\* C23: for a whole-pixel box of positive size on a frame with both sides
\* above 5, the centred square of side floor(0.5 * min(W, H)) is returned
\* exactly when the rounded, clamped padded origin has originX >= W - 5 or
\* originY >= H - 5; otherwise the clamped region, at that origin, is.
C23_FallbackExactlyWhenNoRoom ==
    (/\ CropCalled
     /\ crop.bounds.width > 0 /\ crop.bounds.height > 0
     /\ crop.dimensions.width > safetyMargin /\ crop.dimensions.height > safetyMargin)
    => (/\ crop.fallback <=> NoRoom
        /\ crop.fallback => CentredSquare
        /\ ~crop.fallback =>
              /\ crop.region.originX = PaddedOriginX
              /\ crop.region.originY = PaddedOriginY
              /\ RegionValid)
\* the padded origin lies exactly safetyMargin before the right edge of a
\* 40x56 frame, with room below: the fallback is taken
C23_Witness ==
    /\ CropCalled
    /\ crop.bounds.width > 0 /\ crop.bounds.height > 0
    /\ crop.dimensions = [width |-> 40, height |-> 56]
    /\ PaddedOriginX = 40 - safetyMargin
    /\ PaddedOriginY < 56 - safetyMargin
    /\ crop.fallback
    /\ crop.region = [originX |-> 10, originY |-> 18, width |-> 20, height |-> 20]
\* one pixel further in, the clamped region is returned
C23_WitnessRoom ==
    /\ CropCalled
    /\ crop.bounds.width > 0 /\ crop.bounds.height > 0
    /\ crop.dimensions = [width |-> 40, height |-> 56]
    /\ PaddedOriginX = 40 - safetyMargin - 1
    /\ ~crop.fallback
    /\ crop.region.width = 1

\* C24: whenever the clamped region is returned (the fallback is not taken)
\* originX + width <= frame width - 5 and originY + height <= frame height - 5.
C24_SafetyMarginHolds ==
    (CropCalled /\ ~crop.fallback) =>
        /\ crop.region.originX + crop.region.width <= crop.dimensions.width - safetyMargin
        /\ crop.region.originY + crop.region.height
                <= crop.dimensions.height - safetyMargin
\* a box across the bottom edge of a 100x100 frame, fitted inside the margin
C24_Witness ==
    /\ CropCalled
    /\ crop.bounds = [x |-> 0, y |-> 60, width |-> 30, height |-> 200]
    /\ crop.dimensions = [width |-> 100, height |-> 100]
    /\ ~crop.fallback
    /\ crop.region = [originX |-> 0, originY |-> 20, width |-> 50, height |-> 75]

(***************************************************************************)
(* FaceRecognitionService: l2Normalize, calculateCosineSimilarity,         *)
(* compareEmbeddingsRaw, compareFaces, output step of                      *)
(* generateFaceEmbedding.                                                  *)
(*                                                                         *)
(* A vector is [c |-> <<c1, ..., cn>>, k |-> K] and denotes the numbers    *)
(* c[i] / sqrt(K); the vectors handed in from outside have K = 1.  A       *)
(* scalar is [p |-> P, n |-> N, d |-> D] and denotes P + N / sqrt(D).      *)
(***************************************************************************)
RECURSIVE SumSq(_)
\* reduce((sum, val) => sum + val * val, 0) over the numerators
SumSq(c) == IF c = <<>> THEN 0 ELSE Head(c) * Head(c) + SumSq(Tail(c))

RECURSIVE DotNum(_, _)
\* reduce((sum, val, i) => sum + val * b[i], 0) over the numerators
DotNum(a, b) == IF a = <<>> THEN 0 ELSE Head(a) * Head(b) + DotNum(Tail(a), Tail(b))

Vec(c) == [c |-> c, k |-> 1]
Zero == [p |-> 0, n |-> 0, d |-> 1]

\* the vector is all zeros: Math.sqrt(sum of squares) === 0
NormIsZero(vec) == SumSq(vec.c) = 0

\* l2Normalize that returns an empty array for a zero norm
l2Normalize_emptyOnZero(vec) ==
    IF NormIsZero(vec) THEN [c |-> <<>>, k |-> 1]
    ELSE [c |-> vec.c, k |-> SumSq(vec.c)]

\* l2Normalize dividing by the sum of squares, the square root lost:
\* c[i] / sqrt(k) divided by SumSq(c) / k is c[i] / sqrt(SumSq(c)^2 / k)
l2Normalize_bySquaredNorm(vec) ==
    IF NormIsZero(vec) THEN vec
    ELSE [c |-> vec.c, k |-> (SumSq(vec.c) * SumSq(vec.c)) \div vec.k]

\* lines 66-72.  norm = sqrt(SumSq(c) / k); each c[i] / sqrt(k) divided by
\* it is c[i] / sqrt(SumSq(c)).
l2Normalize(vec) ==
    IF NormIsZero(vec) THEN vec
    ELSE [c |-> vec.c, k |-> SumSq(vec.c)]

\* calculateCosineSimilarity without the zero-norm guard of lines 95-97:
\* 0 / 0 is NaN, which compares false with everything and rounds to NaN
NaN == [p |-> 0, n |-> 0, d |-> 0]

calculateCosineSimilarity_noZeroGuard(a, b) ==
    IF Len(a.c) # Len(b.c)
    THEN [threw |-> TRUE, value |-> Zero]
    ELSE [threw |-> FALSE,
          value |-> [p |-> 0, n |-> DotNum(a.c, b.c), d |-> SumSq(a.c) * SumSq(b.c)]]

\* calculateCosineSimilarity without the length check of lines 86-88:
\* b[i] beyond the end of b is undefined and makes the dot product NaN; a
\* longer b is read only up to the length of a
RECURSIVE DotPrefix(_, _)
DotPrefix(a, b) ==
    IF a = <<>> \/ b = <<>> THEN 0 ELSE Head(a) * Head(b) + DotPrefix(Tail(a), Tail(b))

calculateCosineSimilarity_noLengthCheck(a, b) ==
    IF NormIsZero(a) \/ NormIsZero(b)
    THEN [threw |-> FALSE, value |-> Zero]
    ELSE IF Len(a.c) > Len(b.c)
    THEN [threw |-> FALSE, value |-> NaN]
    ELSE [threw |-> FALSE,
          value |-> [p |-> 0, n |-> DotPrefix(a.c, b.c), d |-> SumSq(a.c) * SumSq(b.c)]]

\* calculateCosineSimilarity with the index lost in the dot product:
\* reduce((sum, val) => sum + val * b[0], 0)
RECURSIVE DotFirst(_, _)
DotFirst(a, b0) == IF a = <<>> THEN 0 ELSE Head(a) * b0 + DotFirst(Tail(a), b0)

calculateCosineSimilarity_firstOfB(a, b) ==
    IF Len(a.c) # Len(b.c)
    THEN [threw |-> TRUE, value |-> Zero]
    ELSE IF NormIsZero(a) \/ NormIsZero(b)
    THEN [threw |-> FALSE, value |-> Zero]
    ELSE [threw |-> FALSE,
          value |-> [p |-> 0, n |-> DotFirst(a.c, Head(b.c)),
                     d |-> SumSq(a.c) * SumSq(b.c)]]

\* lines 85-100.  dot = DotNum / sqrt(ka kb), normA = sqrt(SumSq(a) / ka),
\* normB = sqrt(SumSq(b) / kb), so dot / (normA * normB) is
\* DotNum / sqrt(SumSq(a) SumSq(b)): the factor sqrt(ka kb) cancels.
calculateCosineSimilarity(a, b) ==
    IF Len(a.c) # Len(b.c)
    THEN [threw |-> TRUE, value |-> Zero]     \* 'Embeddings must have the same length'
    ELSE IF NormIsZero(a) \/ NormIsZero(b)
    THEN [threw |-> FALSE, value |-> Zero]
    ELSE [threw |-> FALSE,
          value |-> [p |-> 0, n |-> DotNum(a.c, b.c), d |-> SumSq(a.c) * SumSq(b.c)]]

\* m * sqrt(d) <= t, for whole m, t and d > 0
LeSqrt(m, d, t) ==
    IF m <= 0 /\ t >= 0 THEN TRUE
    ELSE IF m >= 0 /\ t < 0 THEN FALSE
    ELSE IF m > 0 THEN m * m * d <= t * t
    ELSE m * m * d >= t * t

ThresholdNum == 6       \* threshold = 0.6 = ThresholdNum / ThresholdDen
ThresholdDen == 10

\* similarity >= threshold, for a similarity n / sqrt(d); false for NaN
AtLeastThreshold(x) ==
    x.d > 0 /\ LeSqrt(ThresholdNum, x.d, ThresholdDen * x.n)

\* similarity > threshold
AboveThreshold(x) ==
    x.d > 0 /\ ~LeSqrt(-ThresholdNum, x.d, -ThresholdDen * x.n)

\* the largest whole c in lo .. hi with c - 1/2 <= 100 n / sqrt(d), found by
\* bisection (the condition holds at lo)
RECURSIVE LargestPercent(_, _, _, _)
LargestPercent(n, d, lo, hi) ==
    IF lo = hi THEN lo
    ELSE LET mid == (lo + hi + 1) \div 2
         IN  IF LeSqrt(2 * mid - 1, d, 200 * n)
             THEN LargestPercent(n, d, mid, hi)
             ELSE LargestPercent(n, d, lo, mid - 1)

\* Math.round(similarity * 1000): the scale of the percentage off by ten
RoundPercent_perMille(x) ==
    IF x.d = 0 THEN "NaN" ELSE LargestPercent(10 * x.n, x.d, -1000, 1000)

\* Math.round(similarity * 100): the whole c with c - 1/2 <= 100 x < c + 1/2,
\* a cosine lying in -1 .. 1; NaN stays NaN
RoundPercent(x) ==
    IF x.d = 0 THEN "NaN" ELSE LargestPercent(x.n, x.d, -100, 100)

Thrown == [threw |-> TRUE, error |-> "Embeddings must have the same length"]

\* compareEmbeddingsRaw with a strict comparison against the threshold
compareEmbeddingsRaw_strict(embedding1, embedding2) ==
    LET s == calculateCosineSimilarity(embedding1, embedding2)
    IN  IF s.threw THEN Thrown
        ELSE [threw      |-> FALSE,
              similarity |-> s.value,
              distance   |-> [p |-> 1, n |-> -s.value.n, d |-> s.value.d],
              isMatch    |-> AboveThreshold(s.value),
              confidence |-> RoundPercent(s.value)]

\* lines 202-230
compareEmbeddingsRaw(embedding1, embedding2) ==
    LET s == calculateCosineSimilarity(embedding1, embedding2)
    IN  IF s.threw THEN Thrown
        ELSE [threw      |-> FALSE,
              similarity |-> s.value,
              distance   |-> [p |-> 1, n |-> -s.value.n, d |-> s.value.d],
              isMatch    |-> AtLeastThreshold(s.value),
              confidence |-> RoundPercent(s.value)]

\* lines 236-251
compareFaces(embedding1, embedding2) ==
    compareEmbeddingsRaw(l2Normalize(embedding1), l2Normalize(embedding2))

\* lines 186-191: the L2 normalisation of the inference output
NormalizeOutput(raw) ==
    IF NormIsZero(raw) THEN raw
    ELSE [c |-> raw.c, k |-> SumSq(raw.c)]

\* Inputs: vectors of whole components, of every length up to MaxLen (the
\* deployed length is 512)
MaxLen == 2
MaxComp == 2
Components == -MaxComp .. MaxComp
GridVectors == UNION {[1 .. n -> Components] : n \in 0 .. MaxLen}
\* pairs at the decision boundary: <<3,4>>.<<1,0>> has cosine 0.6,
\* <<1,1,0>>.<<3,0,2>> has cosine 3/sqrt(26) = 0.588..., <<0,0,0>> is the
\* zero vector of their length
ScenarioVectors == {<<3, 4>>, <<1, 0>>, <<1, 1, 0>>, <<3, 0, 2>>, <<0, 0, 0>>}
RawVectors == GridVectors \cup ScenarioVectors

CompareFaces ==
    /\ cmp = NoCall
    /\ \E e1 \in RawVectors, e2 \in RawVectors :
         cmp' = [op |-> "compareFaces", embedding1 |-> Vec(e1), embedding2 |-> Vec(e2),
                 result |-> compareFaces(Vec(e1), Vec(e2))]
    /\ UNCHANGED <<crop, screenVars, pipelineVars>>

CompareEmbeddingsRaw ==
    /\ cmp = NoCall
    /\ \E e1 \in RawVectors, e2 \in RawVectors :
         cmp' = [op |-> "compareEmbeddingsRaw", embedding1 |-> Vec(e1),
                 embedding2 |-> Vec(e2),
                 result |-> compareEmbeddingsRaw(Vec(e1), Vec(e2))]
    /\ UNCHANGED <<crop, screenVars, pipelineVars>>

L2Normalize ==
    /\ cmp = NoCall
    /\ \E v \in RawVectors :
         cmp' = [op |-> "l2Normalize", vec |-> Vec(v), result |-> l2Normalize(Vec(v))]
    /\ UNCHANGED <<crop, screenVars, pipelineVars>>

\* generateFaceEmbedding from the inference output on: raw is what
\* session.run returned
GenerateFaceEmbeddingOutput ==
    /\ cmp = NoCall
    /\ \E raw \in RawVectors :
         cmp' = [op |-> "generateFaceEmbedding", vec |-> Vec(raw),
                 result |-> NormalizeOutput(Vec(raw))]
    /\ UNCHANGED <<crop, screenVars, pipelineVars>>

InitMatch == crop = NoCall /\ cmp = NoCall /\ ScreenMounted(<<>>) /\ PipelineIdle
NextMatch ==
    \/ CompareFaces
    \/ CompareEmbeddingsRaw
    \/ L2Normalize
    \/ GenerateFaceEmbeddingOutput
SpecMatch == InitMatch /\ [][NextMatch]_vars

(***************************************************************************)
(* Properties of the matcher and the post-processor (checked under         *)
(* SpecMatch)                                                              *)
(***************************************************************************)
Compared == cmp.op \in {"compareFaces", "compareEmbeddingsRaw"}
SameLength == Len(cmp.embedding1.c) = Len(cmp.embedding2.c)

\* the returned similarity n / sqrt(d) is at least 6/10:
\* n >= 0 and 100 n^2 >= 36 d
SimilarityAtLeastSixTenths ==
    /\ cmp.result.similarity.n >= 0
    /\ 100 * cmp.result.similarity.n * cmp.result.similarity.n
            >= 36 * cmp.result.similarity.d

SimilarityIsSixTenths ==
    /\ cmp.result.similarity.n > 0
    /\ 100 * cmp.result.similarity.n * cmp.result.similarity.n
            = 36 * cmp.result.similarity.d

\* the returned similarity is the cosine of the two arguments:
\* dot / sqrt(|a|^2 |b|^2), and 0 when an argument is the zero vector
SimilarityIsCosine ==
    LET dot == DotNum(cmp.embedding1.c, cmp.embedding2.c)
        aabb == SumSq(cmp.embedding1.c) * SumSq(cmp.embedding2.c)
    IN  /\ cmp.result.similarity.p = 0
        /\ cmp.result.similarity.d > 0
        /\ IF aabb = 0 THEN cmp.result.similarity.n = 0
           ELSE /\ (cmp.result.similarity.n >= 0) <=> (dot >= 0)
                /\ cmp.result.similarity.n * cmp.result.similarity.n * aabb
                        = dot * dot * cmp.result.similarity.d

C6_WitnessBelow ==
    /\ cmp.op = "compareFaces"
    /\ cmp.embedding1.c = <<1, 1, 0>>
    /\ cmp.embedding2.c = <<3, 0, 2>>
    /\ ~cmp.result.isMatch
    /\ cmp.result.confidence = 59

C9_ZeroVectorPassesThrough ==
    (cmp.op \in {"l2Normalize", "generateFaceEmbedding"} /\ NormIsZero(cmp.vec))
    => (/\ cmp.result = cmp.vec
        /\ Len(cmp.result.c) = Len(cmp.vec.c)
        /\ \A i \in 1 .. Len(cmp.result.c) : cmp.result.c[i] = 0
        /\ cmp.result.k = 1)

C9_Witness ==
    /\ cmp.op = "generateFaceEmbedding"
    /\ cmp.vec.c = <<0, 0, 0>>
    /\ cmp.result.c = <<0, 0, 0>>

\* the similarity n / sqrt(d) is 1 within 1e-6.  n * n and d are whole
\* numbers and d stays below 500000, so |n * n / d - 1| <= 2e-6 forces
\* n * n = d.
SimilarityIsOne ==
    /\ ~cmp.result.threw
    /\ cmp.result.similarity.p = 0
    /\ cmp.result.similarity.n > 0
    /\ cmp.result.similarity.d < 500000
    /\ cmp.result.similarity.n * cmp.result.similarity.n = cmp.result.similarity.d

\* C10 as claimed: for any signature s, compareFaces(s, s) yields similarity
\* 1 (within 1e-6) and isMatch = true.
C10_Original_SelfComparisonIsOne ==
    (cmp.op = "compareFaces" /\ cmp.embedding1 = cmp.embedding2)
    => (SimilarityIsOne /\ cmp.result.isMatch)

\* C10 amended: for any signature s of non-zero norm, compareFaces(s, s)
\* yields similarity 1 (within 1e-6) and isMatch = true.
C10_NonZeroSelfComparisonIsOne ==
    (/\ cmp.op = "compareFaces"
     /\ cmp.embedding1 = cmp.embedding2
     /\ ~NormIsZero(cmp.embedding1))
    => (SimilarityIsOne /\ cmp.result.isMatch /\ cmp.result.confidence = 100)

C10_Witness ==
    /\ cmp.op = "compareFaces"
    /\ cmp.embedding1.c = <<1, 2>>
    /\ cmp.embedding2.c = <<1, 2>>
    /\ cmp.result.similarity = [p |-> 0, n |-> 5, d |-> 25]
    /\ cmp.result.confidence = 100
    /\ cmp.result.isMatch

\* the Euclidean norm sqrt(SumSq(c) / k) of a vector is 1 within 1e-4.
\* SumSq(c) and k are whole numbers and k stays below 4999, so
\* |SumSq(c) / k - 1| <= 2.0001e-4 forces SumSq(c) = k.
NormIsOne(v) ==
    /\ v.k > 0
    /\ v.k < 4999
    /\ SumSq(v.c) = v.k

PostProcessed == cmp.op \in {"l2Normalize", "generateFaceEmbedding"}

\* C11: for every non-zero raw vector the post-processed signature
\* (l2Normalize, and the normalisation ending generateFaceEmbedding) has
\* Euclidean norm 1 within 1e-4 and the length of the raw vector; each
\* component keeps its numerator, so the direction is that of the raw vector.
C11_PostProcessedHasUnitNorm ==
    (PostProcessed /\ ~NormIsZero(cmp.vec))
    => (/\ Len(cmp.result.c) = Len(cmp.vec.c)
        /\ NormIsOne(cmp.result)
        /\ cmp.result.c = cmp.vec.c)

\* <<3, 4>> becomes <<3, 4>> / sqrt(25)
C11_Witness ==
    /\ cmp.op = "l2Normalize"
    /\ cmp.vec = [c |-> <<3, 4>>, k |-> 1]
    /\ cmp.result = [c |-> <<3, 4>>, k |-> 25]

\* C12 as claimed: every MatchResult of compareFaces / compareEmbeddingsRaw
\* on two vectors of one length has a confidence that is a whole number in
\* 0 .. 100.
C12_Original_ConfidenceInZeroToHundred ==
    (Compared /\ SameLength) => cmp.result.confidence \in 0 .. 100

\* C12 amended: every MatchResult of compareFaces / compareEmbeddingsRaw on
\* two vectors of one length has a confidence that is a whole number in
\* -100 .. 100 (round(similarity * 100), unclamped); it lies in 0 .. 100
\* whenever the similarity is not negative, and is negative whenever the
\* similarity is below -0.005.
C12_ConfidenceInMinusHundredToHundred ==
    (Compared /\ SameLength)
    => (/\ cmp.result.confidence \in -100 .. 100
        /\ cmp.result.similarity.n >= 0 => cmp.result.confidence \in 0 .. 100
        /\ ~LeSqrt(-1, cmp.result.similarity.d, 200 * cmp.result.similarity.n)
                => cmp.result.confidence < 0)

\* opposite vectors: similarity -1, confidence -100
C12_Witness ==
    /\ cmp.op = "compareFaces"
    /\ cmp.embedding1.c = <<1, 0>>
    /\ cmp.embedding2.c = <<-1, 0>>
    /\ cmp.result.similarity = [p |-> 0, n |-> -1, d |-> 1]
    /\ cmp.result.confidence = -100
    /\ ~cmp.result.isMatch

(***************************************************************************)
(* FaceVerificationScreen.verifyFace (face-verification.tsx lines 127-200) *)
(*                                                                         *)
(* verifyFace is async: it runs to its first await (processFacePhoto),     *)
(* from that to the second (generateFaceEmbedding), and from that to its   *)
(* end.  Invocations are numbered in the order they are made; the state    *)
(* read at entry is the state of the screen at that moment.                *)
(***************************************************************************)
\* the embeddings a registered face may carry, the outputs inference may give
StoredEmbeddings == {<<3, 4>>, <<1, 1, 0>>}
InferenceOutputs == {<<3, 4>>, <<1, 0>>, <<1, 1, 0>>, <<3, 0, 2>>, <<0, 0, 0>>}

\* catch (lines 192-196) and finally (lines 197-199)
CatchAndFinally(i) ==
    /\ alerts' = alerts + 1
    /\ isVerifying' = FALSE
    /\ attempts' = [attempts EXCEPT ![i] = "done"]

\* lines 127-140: entry up to the await of processFacePhoto.  The early
\* return of line 130 is inside the try block, so the finally block runs.
VerifyFaceCalled(i) ==
    /\ attempts[i] = "notCalled"
    /\ \A j \in 1 .. i - 1 : attempts[j] # "notCalled"
    /\ \E photo \in {"photo", "null"} :
         IF isVerifying \/ photo = "null"
         THEN /\ isVerifying' = FALSE
              /\ attempts' = [attempts EXCEPT ![i] = "done"]
         ELSE /\ isVerifying' = TRUE
              /\ attempts' = [attempts EXCEPT ![i] = "processFacePhoto"]
    /\ UNCHANGED <<crop, cmp, selectedFace, cameraVars, verificationResult, alerts, timers, pipelineVars>>

\* lines 140-154: processFacePhoto settles; on success generateFaceEmbedding
\* is awaited, on failure the catch and finally blocks run
ProcessFacePhotoSettled(i) ==
    /\ attempts[i] = "processFacePhoto"
    /\ \/ /\ attempts' = [attempts EXCEPT ![i] = "generateFaceEmbedding"]
          /\ UNCHANGED <<isVerifying, alerts>>
       \/ CatchAndFinally(i)
    /\ UNCHANGED <<crop, cmp, selectedFace, cameraVars, verificationResult, timers, pipelineVars>>

\* lines 154-159 and 192-199: generateFaceEmbedding gave null
EmbeddingFailed(i) ==
    /\ attempts[i] = "generateFaceEmbedding"
    /\ CatchAndFinally(i)
    /\ UNCHANGED <<crop, cmp, selectedFace, cameraVars, verificationResult, timers, pipelineVars>>

\* lines 154-199: generateFaceEmbedding gave an embedding; compareFaces,
\* then either setVerificationResult and the 3 s timer, or the catch block;
\* the finally block in both cases
EmbeddingCompared(i) ==
    /\ attempts[i] = "generateFaceEmbedding"
    /\ \E raw \in InferenceOutputs :
         LET currentEmbedding == NormalizeOutput(Vec(raw))
             comparisonResult == compareFaces(currentEmbedding, selectedFace.embedding)
         IN  /\ cmp' = [op |-> "compareFaces", by |-> i,
                         embedding1 |-> currentEmbedding,
                         embedding2 |-> selectedFace.embedding,
                         result |-> comparisonResult]
             /\ IF comparisonResult.threw
                THEN /\ CatchAndFinally(i)
                     /\ UNCHANGED <<verificationResult, timers>>
                ELSE /\ verificationResult' =
                            [set |-> TRUE,
                             isMatch |-> comparisonResult.isMatch,
                             confidence |-> comparisonResult.confidence]
                     /\ timers' = timers + 1
                     /\ isVerifying' = FALSE
                     /\ attempts' = [attempts EXCEPT ![i] = "done"]
                     /\ UNCHANGED alerts
    /\ UNCHANGED <<crop, selectedFace, cameraVars, pipelineVars>>

\* lines 189-191: the timer callback
ResultTimerFired ==
    /\ timers > 0
    /\ timers' = timers - 1
    /\ verificationResult' = Null
    /\ UNCHANGED <<crop, cmp, selectedFace, cameraVars, isVerifying, attempts, alerts, pipelineVars>>

InitVerify ==
    /\ crop = NoCall
    /\ cmp = NoCall
    /\ \E e \in StoredEmbeddings : ScreenMounted(e)
    /\ PipelineIdle
NextVerify ==
    \/ \E i \in 1 .. MaxAttempts : VerifyFaceCalled(i)
    \/ \E i \in 1 .. MaxAttempts : ProcessFacePhotoSettled(i)
    \/ \E i \in 1 .. MaxAttempts : EmbeddingFailed(i)
    \/ \E i \in 1 .. MaxAttempts : EmbeddingCompared(i)
    \/ ResultTimerFired
SpecVerify == InitVerify /\ [][NextVerify]_vars

(***************************************************************************)
(* Properties of the comparison inside verifyFace (checked under           *)
(* SpecVerify)                                                             *)
(***************************************************************************)
\* this step is a compareFaces call on two signatures of different lengths
ComparesDifferentLengths ==
    /\ cmp' # cmp
    /\ cmp'.op = "compareFaces"
    /\ Len(cmp'.embedding1.c) # Len(cmp'.embedding2.c)

\* C7: comparing two signatures of different lengths fails with the
\* length-mismatch error and yields no MatchResult (no prefix is compared);
\* in verifyFace the error ends the attempt: an alert is raised, isVerifying
\* is cleared, and no verification result is set and no result timer started.
C7_LengthMismatchFailsFast ==
    [][ComparesDifferentLengths =>
            /\ cmp'.result = Thrown
            /\ verificationResult' = verificationResult
            /\ timers' = timers
            /\ alerts' = alerts + 1
            /\ isVerifying' = FALSE
            /\ attempts'[cmp'.by] = "done"]_vars

\* the first attempt compared a 2-vector with a stored 3-vector
C7_Witness ==
    /\ cmp.op = "compareFaces"
    /\ cmp.by = 1
    /\ Len(cmp.embedding1.c) = 2
    /\ Len(cmp.embedding2.c) = 3
    /\ cmp.result = Thrown
    /\ verificationResult = Null
    /\ alerts = 1
    /\ ~isVerifying

(***************************************************************************)
(* generateFaceEmbedding, steps 3 to 7 (faceRecognitionService.ts lines    *)
(* 137-176): histogram, CDF, equalization table, equalized plane, NCHW     *)
(* tensor.  gray is the Uint8Array of line 132, a sequence of INPUT_SIZE^2 *)
(* values in 0 .. 255 (pixel i of the code is element i + 1).  A table of  *)
(* 256 entries (hist, cdf, cdfNormalized) is a function on 0 .. 255.       *)
(***************************************************************************)
INPUT_SIZE == 2         \* 112 in the source
NumBins == 256
MaxPixel == 255
Bins == 0 .. NumBins - 1

\* lines 138-148: hist[v] counts the pixels of value v, and the running sum
\* cdf[i] = hist[0] + ... + hist[i] counts the pixels of value at most i
cdf(gray) == [i \in Bins |-> Cardinality({p \in 1 .. Len(gray) : gray[p] <= i})]

\* line 151: cdf.find(v => v > 0) || 0, the first positive entry of the
\* non-decreasing array c (the entry before it, if any, is 0)
FindPositive(c) ==
    IF c[NumBins - 1] = 0 THEN 0
    ELSE c[CHOOSE i \in Bins : c[i] > 0 /\ (i = 0 \/ c[i - 1] = 0)]

\* Math.round(num / den) for den > 0: floor(num / den + 1/2)
RoundRatio(num, den) == (2 * num + den) \div (2 * den)

\* the store of a number into a Uint8Array: modulo 2^8
ToUint8(v) == v % NumBins

\* the store of a number into a Uint8ClampedArray
ClampUint8(v) == Max(0, Min(MaxPixel, v))

\* the equalization table with the cdfMin of the numerator lost
cdfNormalized_cdfMinLost(c, cdfMin, totalPixels) ==
    [i \in Bins |->
        IF totalPixels = cdfMin THEN 0
        ELSE ToUint8(RoundRatio(c[i] * MaxPixel, totalPixels - cdfMin))]

\* the equalization table with a zero denominator guarded: the gray level is
\* kept when the image has one gray level only
cdfNormalized_flatKept(c, cdfMin, totalPixels) ==
    [i \in Bins |->
        IF totalPixels = cdfMin THEN i
        ELSE ToUint8(RoundRatio((c[i] - cdfMin) * MaxPixel, totalPixels - cdfMin))]

\* lines 152-156, c being the cdf array.  When totalPixels = cdfMin (one gray
\* level only) the quotient is 0 / 0 = NaN or -cdfMin / 0 = -Infinity; both
\* are stored as 0.
cdfNormalized(c, cdfMin, totalPixels) ==
    [i \in Bins |->
        IF totalPixels = cdfMin THEN 0
        ELSE ToUint8(RoundRatio((c[i] - cdfMin) * MaxPixel, totalPixels - cdfMin))]

\* lines 159-162
equalizedGray(gray, table) ==
    [i \in 1 .. INPUT_SIZE * INPUT_SIZE |-> IF i <= Len(gray) THEN table[gray[i]] ELSE 0]

\* the tensor filled pixel by pixel (NHWC): input[3 i], input[3 i + 1],
\* input[3 i + 2] = val
input_interleaved(equalized) ==
    [j \in 1 .. 3 * INPUT_SIZE * INPUT_SIZE |-> equalized[((j - 1) \div 3) + 1]]

\* lines 165-171: input[i], input[i + S S], input[i + 2 S S] = equalizedGray[i]
input(equalized) ==
    [j \in 1 .. 3 * INPUT_SIZE * INPUT_SIZE |->
        equalized[((j - 1) % (INPUT_SIZE * INPUT_SIZE)) + 1]]

\* Images: every assignment of the gray levels of one palette to the
\* INPUT_SIZE^2 pixels (flat images, two-level and three-level images, with
\* and without the extremes 0 and 255)
Palettes == {{0, 100, 255}, {7, 200}, {50, 150}}
GrayImages == UNION {[1 .. INPUT_SIZE * INPUT_SIZE -> pal] : pal \in Palettes}

GenerateFaceEmbeddingTensor ==
    /\ img = NoCall
    /\ \E gray \in GrayImages :
       \E c \in {cdf(gray)} :
       \E cdfMin \in {FindPositive(c)} :
       \E table \in {cdfNormalized(c, cdfMin, Len(gray))} :
       \E equalized \in {equalizedGray(gray, table)} :
         img' = [op |-> "generateFaceEmbedding", gray |-> gray,
                 cdf |-> c, cdfMin |-> cdfMin, cdfNormalized |-> table,
                 equalizedGray |-> equalized, input |-> input(equalized)]
    /\ UNCHANGED <<crop, cmp, screenVars, engineVars, callVars>>

InitTensor == crop = NoCall /\ cmp = NoCall /\ ScreenMounted(<<>>) /\ PipelineIdle
NextTensor == GenerateFaceEmbeddingTensor
SpecTensor == InitTensor /\ [][NextTensor]_vars

(***************************************************************************)
(* Properties of the image normalisation (checked under SpecTensor)        *)
(***************************************************************************)
TensorBuilt == img.op = "generateFaceEmbedding"
Pixels == 1 .. INPUT_SIZE * INPUT_SIZE

\* C13: histogram equalization is monotonic on the gray levels present in
\* the image: for any two pixels with gray values p1 < p2 the equalized
\* values satisfy eq(p1) <= eq(p2).
C13_EqualizationMonotonic ==
    TensorBuilt =>
        \A i \in Pixels, j \in Pixels :
            img.gray[i] < img.gray[j] => img.equalizedGray[i] <= img.equalizedGray[j]

\* three gray levels, equalized to three increasing values
C13_Witness ==
    /\ TensorBuilt
    /\ img.gray = <<100, 0, 255, 100>>
    /\ img.equalizedGray = <<170, 0, 255, 170>>

\* C14: the tensor has exactly 3 S S entries and consists of three identical
\* planes: entries i, i + S S and i + 2 S S all equal the equalized gray
\* value of pixel i, the table entry of its gray level; every entry lies in
\* 0 .. 255.
C14_ThreeIdenticalPlanes ==
    TensorBuilt =>
        /\ Len(img.input) = 3 * INPUT_SIZE * INPUT_SIZE
        /\ \A i \in Pixels :
             /\ img.input[i] = img.cdfNormalized[img.gray[i]]
             /\ img.input[i + INPUT_SIZE * INPUT_SIZE] = img.input[i]
             /\ img.input[i + 2 * INPUT_SIZE * INPUT_SIZE] = img.input[i]
        /\ \A j \in 1 .. Len(img.input) : img.input[j] \in 0 .. MaxPixel

C14_Witness ==
    /\ TensorBuilt
    /\ img.gray = <<100, 0, 255, 100>>
    /\ img.input = <<170, 0, 255, 170, 170, 0, 255, 170, 170, 0, 255, 170>>

\* C15: for each of the 256 bins i the table entry equals
\* round(((cdf[i] - cdfMin) / (totalPixels - cdfMin)) * 255) clipped to
\* 0 .. 255, cdfMin being the smallest non-zero CDF entry; bins below the
\* darkest gray level present, whose unclipped value is negative, map to 0.
\* (An image of one gray level, for which the quotient is undefined, is
\* left out.)
C15_TableEntriesClipped ==
    TensorBuilt =>
        (Len(img.gray) # img.cdfMin =>
            \A i \in Bins :
                /\ img.cdfNormalized[i] =
                     ClampUint8(RoundRatio((img.cdf[i] - img.cdfMin) * MaxPixel,
                                           Len(img.gray) - img.cdfMin))
                /\ img.cdf[i] = 0 => img.cdfNormalized[i] = 0)

\* an image of one gray level: the first non-zero CDF entry is the number
\* of pixels and the denominator totalPixels - cdfMin is zero
SingleIntensity == img.cdfMin = Len(img.gray)

\* C30: when the gray plane has a single intensity (cdfMin = totalPixels,
\* the denominator of the normalization is zero) the normalization does not
\* fail: the tensor is built, every entry of the table is 0 and every value
\* of the tensor is 0.
C30_SingleIntensityGivesZeroTensor ==
    (TensorBuilt /\ SingleIntensity) =>
        /\ \A i \in Bins : img.cdfNormalized[i] = 0
        /\ \A j \in DOMAIN img.input : img.input[j] = 0

\* every pixel at gray level 100, the tensor all zero
C30_Witness ==
    /\ TensorBuilt
    /\ SingleIntensity
    /\ \A i \in Pixels : img.gray[i] = 100
    /\ \A j \in DOMAIN img.input : img.input[j] = 0

(***************************************************************************)
(* FaceRecognitionService.loadModel / isModelLoaded / clearModel           *)
(* (faceRecognitionService.ts lines 20-61, 266-281) and                    *)
(* FaceDetectionService.loadModel (faceDetectionService.ts lines 24-53).   *)
(*                                                                         *)
(* JavaScript runs one callback at a time: a call of loadModel runs        *)
(* without interruption up to its first await, and from one await to the   *)
(* next.  loads[c] is the invocation made by caller c; a session (a graph  *)
(* model) is named by its number in order of creation, 0 standing for      *)
(* null.                                                                   *)
(***************************************************************************)
nonEngineVars == <<crop, cmp, screenVars, img, callVars>>

Returned(service, result) == [pc |-> "returned", service |-> service, result |-> result]
Awaiting(service, pc) == [pc |-> pc, service |-> service]

\* loadModel without line 35 (isModelLoading is never set)
LoadModelCalled_flagNotSet(c) ==
    /\ loads[c] = NotCalled
    /\ IF modelSession # 0
       THEN loads' = [loads EXCEPT ![c] = Returned("recognition", modelSession)]
       ELSE IF isModelLoading
       THEN loads' = [loads EXCEPT ![c] = Awaiting("recognition", "waiting")]
       ELSE loads' = [loads EXCEPT ![c] = Awaiting("recognition", "downloadAsync")]
    /\ UNCHANGED <<modelSession, isModelLoading, model, isLoading, created>>

\* loadModel without the cached session of lines 22-24
LoadModelCalled_noCache(c) ==
    /\ loads[c] = NotCalled
    /\ IF isModelLoading
       THEN /\ loads' = [loads EXCEPT ![c] = Awaiting("recognition", "waiting")]
            /\ UNCHANGED isModelLoading
       ELSE /\ isModelLoading' = TRUE
            /\ loads' = [loads EXCEPT ![c] = Awaiting("recognition", "downloadAsync")]
    /\ UNCHANGED <<modelSession, model, isLoading, created>>

\* lines 20-39: entry of loadModel up to its first await, within the step
\* of the caller that makes the call
LoadModelCalled(c) ==
    /\ loads[c] = NotCalled
    /\ IF modelSession # 0
       THEN /\ loads' = [loads EXCEPT ![c] = Returned("recognition", modelSession)]
            /\ UNCHANGED isModelLoading
       ELSE IF isModelLoading
       THEN /\ loads' = [loads EXCEPT ![c] = Awaiting("recognition", "waiting")]
            /\ UNCHANGED isModelLoading
       ELSE /\ isModelLoading' = TRUE
            /\ loads' = [loads EXCEPT ![c] = Awaiting("recognition", "downloadAsync")]
    /\ UNCHANGED <<modelSession, model, isLoading, created>>

\* a waiting caller that, finding the flag down and no session, goes on to
\* load the model itself instead of returning at line 32
LoadModelPolled_loadsItself(c) ==
    /\ loads[c] = Awaiting("recognition", "waiting")
    /\ ~isModelLoading
    /\ IF modelSession # 0
       THEN /\ loads' = [loads EXCEPT ![c] = Returned("recognition", modelSession)]
            /\ UNCHANGED isModelLoading
       ELSE /\ isModelLoading' = TRUE
            /\ loads' = [loads EXCEPT ![c] = Awaiting("recognition", "downloadAsync")]
    /\ UNCHANGED <<modelSession, model, isLoading, created>>
    /\ UNCHANGED nonEngineVars

\* lines 28-31: the 100 ms timer of a waiting caller fires and the flag is
\* down (while it is up the caller sets the next timer and nothing changes)
LoadModelPolled(c) ==
    /\ loads[c] = Awaiting("recognition", "waiting")
    /\ ~isModelLoading
    /\ loads' = [loads EXCEPT ![c] = Returned("recognition", modelSession)]
    /\ UNCHANGED <<modelSession, isModelLoading, model, isLoading, created>>
    /\ UNCHANGED nonEngineVars

\* lines 38-44: the asset is downloaded
AssetDownloaded(c) ==
    /\ loads[c] = Awaiting("recognition", "downloadAsync")
    /\ loads' = [loads EXCEPT ![c] = Awaiting("recognition", "InferenceSession.create")]
    /\ UNCHANGED <<modelSession, isModelLoading, model, isLoading, created>>
    /\ UNCHANGED nonEngineVars

\* lines 44-53 and 58-60: the session is created and cached
SessionCreated(c) ==
    /\ loads[c] = Awaiting("recognition", "InferenceSession.create")
    /\ created' = [created EXCEPT !.recognition = @ + 1]
    /\ modelSession' = created'.recognition
    /\ isModelLoading' = FALSE
    /\ loads' = [loads EXCEPT ![c] = Returned("recognition", created'.recognition)]
    /\ UNCHANGED <<model, isLoading>>
    /\ UNCHANGED nonEngineVars

\* lines 54-60: the download or the creation of the session fails
LoadFailed(c) ==
    /\ loads[c] \in {Awaiting("recognition", "downloadAsync"),
                     Awaiting("recognition", "InferenceSession.create")}
    /\ isModelLoading' = FALSE
    /\ loads' = [loads EXCEPT ![c] = Returned("recognition", 0)]
    /\ UNCHANGED <<modelSession, model, isLoading, created>>
    /\ UNCHANGED nonEngineVars

\* lines 269-271
isModelLoaded == modelSession # 0

\* lines 276-281
clearModel ==
    /\ modelSession # 0
    /\ modelSession' = 0
    /\ UNCHANGED <<isModelLoading, model, isLoading, created, loads>>
    /\ UNCHANGED nonEngineVars

\* faceDetectionService.ts lines 24-43: entry of loadModel up to its await,
\* within the step of the caller that makes the call
DetectionLoadModelCalled(c) ==
    /\ loads[c] = NotCalled
    /\ IF model # 0
       THEN /\ loads' = [loads EXCEPT ![c] = Returned("detection", model)]
            /\ UNCHANGED isLoading
       ELSE IF isLoading
       THEN /\ loads' = [loads EXCEPT ![c] = Awaiting("detection", "waiting")]
            /\ UNCHANGED isLoading
       ELSE /\ isLoading' = TRUE
            /\ loads' = [loads EXCEPT ![c] = Awaiting("detection", "loadGraphModel")]
    /\ UNCHANGED <<modelSession, isModelLoading, model, created>>

\* faceDetectionService.ts lines 29-35
DetectionLoadModelPolled(c) ==
    /\ loads[c] = Awaiting("detection", "waiting")
    /\ ~isLoading
    /\ loads' = [loads EXCEPT ![c] = Returned("detection", model)]
    /\ UNCHANGED <<modelSession, isModelLoading, model, isLoading, created>>
    /\ UNCHANGED nonEngineVars

\* faceDetectionService.ts lines 43-46 and 50-52
GraphModelLoaded(c) ==
    /\ loads[c] = Awaiting("detection", "loadGraphModel")
    /\ created' = [created EXCEPT !.detection = @ + 1]
    /\ model' = created'.detection
    /\ isLoading' = FALSE
    /\ loads' = [loads EXCEPT ![c] = Returned("detection", created'.detection)]
    /\ UNCHANGED <<modelSession, isModelLoading>>
    /\ UNCHANGED nonEngineVars

\* faceDetectionService.ts lines 47-52
GraphModelFailed(c) ==
    /\ loads[c] = Awaiting("detection", "loadGraphModel")
    /\ isLoading' = FALSE
    /\ loads' = [loads EXCEPT ![c] = Returned("detection", 0)]
    /\ UNCHANGED <<modelSession, isModelLoading, model, created>>
    /\ UNCHANGED nonEngineVars

\* The callers of loadModel: the screens' effects, and whoever else holds
\* the singletons; each makes one call, of either service
MaxLoads == 3
DirectCallers == {<<"loadModel", n>> : n \in 1 .. MaxLoads}

LoadModelRequested(c) == LoadModelCalled(c) /\ UNCHANGED nonEngineVars
DetectionLoadModelRequested(c) == DetectionLoadModelCalled(c) /\ UNCHANGED nonEngineVars

InitEngine ==
    /\ crop = NoCall /\ cmp = NoCall /\ ScreenMounted(<<>>) /\ img = NoCall
    /\ EnginesAsConstructed(DirectCallers)
    /\ CallsIdle({}, {}, "none")
NextEngine ==
    \/ \E c \in DirectCallers : LoadModelRequested(c)
    \/ \E c \in DirectCallers : LoadModelPolled(c)
    \/ \E c \in DirectCallers : AssetDownloaded(c)
    \/ \E c \in DirectCallers : SessionCreated(c)
    \/ \E c \in DirectCallers : LoadFailed(c)
    \/ clearModel
    \/ \E c \in DirectCallers : DetectionLoadModelRequested(c)
    \/ \E c \in DirectCallers : DetectionLoadModelPolled(c)
    \/ \E c \in DirectCallers : GraphModelLoaded(c)
    \/ \E c \in DirectCallers : GraphModelFailed(c)
SpecEngine == InitEngine /\ [][NextEngine]_vars

(***************************************************************************)
(* Properties of the model loading (checked under SpecEngine)              *)
(***************************************************************************)
\* the invocations of loadModel that are loading: past line 35 and not yet
\* through the finally block
Loading(service) ==
    {c \in DOMAIN loads :
        loads[c] \in {Awaiting(service, "downloadAsync"),
                      Awaiting(service, "InferenceSession.create"),
                      Awaiting(service, "loadGraphModel")}}

Services == {"recognition", "detection"}

OneLoadAtMost ==
    /\ \A service \in Services : Cardinality(Loading(service)) <= 1
    /\ isModelLoading <=> Loading("recognition") # {}
    /\ isLoading <=> Loading("detection") # {}

\* caller c enters loadModel in this step
Arrives(c) == loads[c] = NotCalled /\ loads'[c] # NotCalled

ArrivalDuringLoadWaits ==
    \A c \in DOMAIN loads :
        (Arrives(c) /\ Loading(loads'[c].service) # {})
        => (/\ loads'[c] = Awaiting(loads'[c].service, "waiting")
            /\ \A service \in Services : Loading(service)' = Loading(service))

\* C16: initialization of the inference engine is mutually exclusive: in
\* every interleaving of loadModel calls, with or without clearModel calls,
\* at most one load (asset download plus InferenceSession.create; for the
\* detector, loadGraphModel) is in progress at any time, and a caller that
\* arrives while a load is in flight waits instead of starting a second one.
C16_LoadIsMutuallyExclusive ==
    /\ []OneLoadAtMost
    /\ [][ArrivalDuringLoadWaits]_vars

\* one caller is creating the session while another two wait
C16_Witness ==
    /\ loads[<<"loadModel", 1>>] = Awaiting("recognition", "InferenceSession.create")
    /\ loads[<<"loadModel", 2>>] = Awaiting("recognition", "waiting")
    /\ loads[<<"loadModel", 3>>] = Awaiting("recognition", "waiting")
    /\ isModelLoading

ArrivesAtRecognition(c) == Arrives(c) /\ loads'[c].service = "recognition"

\* C17: once a model load has succeeded, every later loadModel call returns
\* that same session without creating another one, and isModelLoaded() stays
\* true, until clearModel() is called; after clearModel() (no session, no
\* load in flight) the next loadModel performs a fresh load.
C17_SessionCachedUntilCleared ==
    [][/\ (isModelLoaded /\ ~clearModel)
            => /\ isModelLoaded'
               /\ modelSession' = modelSession
               /\ created'.recognition = created.recognition
       /\ \A c \in DOMAIN loads :
            (ArrivesAtRecognition(c) /\ isModelLoaded)
                => /\ loads'[c] = Returned("recognition", modelSession)
                   /\ Loading("recognition")' = {}
       /\ clearModel => (~isModelLoaded' /\ ~isModelLoading')
       /\ \A c \in DOMAIN loads :
            (ArrivesAtRecognition(c) /\ ~isModelLoaded /\ ~isModelLoading)
                => /\ loads'[c] = Awaiting("recognition", "downloadAsync")
                   /\ isModelLoading'
       /\ (~isModelLoaded /\ isModelLoaded')
            => /\ created'.recognition = created.recognition + 1
               /\ modelSession' = created'.recognition]_vars

\* two calls were given the first session, and, clearModel having been
\* called, a third call loaded and was given a second session
C17_Witness ==
    /\ loads[<<"loadModel", 1>>] = Returned("recognition", 1)
    /\ loads[<<"loadModel", 2>>] = Returned("recognition", 1)
    /\ loads[<<"loadModel", 3>>] = Returned("recognition", 2)
    /\ created.recognition = 2
    /\ modelSession = 2

(***************************************************************************)
(* generateFaceEmbedding as a whole (faceRecognitionService.ts lines       *)
(* 102-196) and its callers: registerFace (face-registration.tsx lines     *)
(* 107-182) with FaceStorageService.saveRegisteredFace (faceStorage.ts     *)
(* lines 16-46), verifyFace and processGalleryPhotoForVerification         *)
(* (face-verification.tsx lines 127-200, 288-351).                         *)
(*                                                                         *)
(* embeds[c] is the invocation of generateFaceEmbedding made by caller c,  *)
(* and loads[c] the invocation of loadModel it makes at line 105.          *)
(***************************************************************************)
EmbeddingNull == [pc |-> "returned", result |-> Null]
EmbeddingOf(e) == [pc |-> "returned", result |-> [set |-> TRUE, embedding |-> e]]
TensorsOf(c) == {<<c, "imageTensor">>, <<c, "grayTensor">>}

\* lines 102-105: entry of generateFaceEmbedding up to the await of
\* loadModel, within the step of the caller that makes the call
GenerateFaceEmbeddingCalled(c) ==
    /\ embeds[c] = NotCalled
    /\ embeds' = [embeds EXCEPT ![c] = [pc |-> "loadModel"]]
    /\ LoadModelCalled(c)

\* lines 105-129: loadModel has returned.  Without a session: null.  With
\* one: the image is decoded and resized inside tf.tidy (a failure there
\* leaves no tensor behind), the gray tensor is made, and its data awaited.
SessionObtained(c) ==
    /\ embeds[c] = [pc |-> "loadModel"]
    /\ loads[c].pc = "returned"
    /\ IF loads[c].result = 0
       THEN /\ embeds' = [embeds EXCEPT ![c] = EmbeddingNull]
            /\ UNCHANGED tensors
       ELSE \/ /\ embeds' = [embeds EXCEPT ![c] = EmbeddingNull]
               /\ UNCHANGED tensors
            \/ /\ embeds' = [embeds EXCEPT ![c] = [pc |-> "grayTensor.data"]]
               /\ tensors' = tensors \cup TensorsOf(c)
    /\ UNCHANGED <<crop, cmp, screenVars, img, engineVars>>
    /\ UNCHANGED <<store, registering, registered, regs, gallery, screen>>

\* lines 129-179: the gray pixels arrive, the tensor is built and inference
\* started; or reading the pixels fails and the catch block returns null
GrayPixelsRead(c) ==
    /\ embeds[c] = [pc |-> "grayTensor.data"]
    /\ \/ embeds' = [embeds EXCEPT ![c] = [pc |-> "session.run"]]
       \/ embeds' = [embeds EXCEPT ![c] = EmbeddingNull]
    /\ UNCHANGED <<crop, cmp, screenVars, img, engineVars>>
    /\ UNCHANGED <<tensors, store, registering, registered, regs, gallery, screen>>

\* lines 179-195: inference gives the raw vector, the two tensors are
\* disposed of and the normalised vector returned; or inference fails and
\* the catch block returns null
InferenceSettled(c) ==
    /\ embeds[c] = [pc |-> "session.run"]
    /\ \/ \E raw \in InferenceOutputs :
            /\ tensors' = tensors \ TensorsOf(c)
            /\ embeds' = [embeds EXCEPT ![c] = EmbeddingOf(NormalizeOutput(Vec(raw)))]
       \/ /\ embeds' = [embeds EXCEPT ![c] = EmbeddingNull]
          /\ UNCHANGED tensors
    /\ UNCHANGED <<crop, cmp, screenVars, img, engineVars>>
    /\ UNCHANGED <<store, registering, registered, regs, gallery, screen>>

(***************************************************************************)
(* FaceRegistrationScreen.registerFace                                     *)
(***************************************************************************)
Done(outcome) == [pc |-> "done", outcome |-> outcome]
RegistrationCaller(j) == <<"registerFace", j>>

\* face-registration.tsx lines 107-116, called by completeRegistration from
\* the button that is disabled while registering (line 490)
RegisterFaceCalled(j) ==
    /\ screen = "registration"
    /\ regs[j] = NotCalled
    /\ \A k \in 1 .. j - 1 : regs[k] # NotCalled
    /\ ~registering
    /\ registering' = TRUE
    /\ regs' = [regs EXCEPT ![j] = [pc |-> "generateFaceEmbedding"]]
    /\ GenerateFaceEmbeddingCalled(RegistrationCaller(j))
    /\ UNCHANGED <<crop, cmp, screenVars, img>>
    /\ UNCHANGED <<tensors, store, registered, gallery, screen>>

\* registerFace going on to save whatever generateFaceEmbedding returned
RegistrationEmbeddingReturned_noNullCheck(j) ==
    /\ regs[j] = [pc |-> "generateFaceEmbedding"]
    /\ embeds[RegistrationCaller(j)].pc = "returned"
    /\ regs' = [regs EXCEPT ![j] =
                    [pc |-> "getItem",
                     faceData |-> [id |-> j, embedding |-> embeds[RegistrationCaller(j)].result]]]
    /\ UNCHANGED <<crop, cmp, screenVars, img, engineVars>>
    /\ UNCHANGED <<embeds, tensors, store, registering, registered, gallery, screen>>

\* face-registration.tsx lines 116-135 and faceStorage.ts lines 16-18:
\* without an embedding the alert, setRegistering(false) and return; with
\* one, faceData is made and saveRegisteredFace awaits getRegisteredFaces
RegistrationEmbeddingReturned(j) ==
    /\ regs[j] = [pc |-> "generateFaceEmbedding"]
    /\ embeds[RegistrationCaller(j)].pc = "returned"
    /\ IF ~embeds[RegistrationCaller(j)].result.set
       THEN /\ registering' = FALSE
            /\ regs' = [regs EXCEPT ![j] = Done("Failed to process face")]
       ELSE /\ regs' = [regs EXCEPT ![j] =
                           [pc |-> "getItem",
                            faceData |-> [id |-> j,
                                          embedding |-> embeds[RegistrationCaller(j)].result.embedding]]]
            /\ UNCHANGED registering
    /\ UNCHANGED <<crop, cmp, screenVars, img, engineVars>>
    /\ UNCHANGED <<embeds, tensors, store, registered, gallery, screen>>

\* faceStorage.ts lines 18-21 and 30-46: getRegisteredFaces gives the faces
\* stored, or [] when AsyncStorage.getItem rejects or the stored text does
\* not parse (catch block, lines 42-45); the new face is appended and
\* AsyncStorage.setItem awaited
StoredFacesRead(j) ==
    /\ regs[j].pc = "getItem"
    /\ \E existingFaces \in {store, <<>>} :
         regs' = [regs EXCEPT ![j] =
                     [pc |-> "setItem", faceData |-> regs[j].faceData,
                      updatedFaces |-> Append(existingFaces, regs[j].faceData)]]
    /\ UNCHANGED <<crop, cmp, screenVars, img, engineVars>>
    /\ UNCHANGED <<embeds, tensors, store, registering, registered, gallery, screen>>

\* faceStorage.ts lines 21-26 and face-registration.tsx lines 135-175:
\* setItem resolves (the text is stored, setRegistered(true),
\* setRegistering(false), the success alert) or rejects ('Failed to save
\* face data', the storage error alert with its Retry button)
FacesWritten(j) ==
    /\ regs[j].pc = "setItem"
    /\ \/ /\ store' = regs[j].updatedFaces
          /\ registered' = TRUE
          /\ registering' = FALSE
          /\ regs' = [regs EXCEPT ![j] = Done("Registration Successful!")]
       \/ /\ regs' = [regs EXCEPT ![j] = [pc |-> "Storage Error"]]
          /\ UNCHANGED <<store, registered, registering>>
    /\ UNCHANGED <<crop, cmp, screenVars, img, engineVars>>
    /\ UNCHANGED <<embeds, tensors, gallery, screen>>

\* face-registration.tsx lines 165-173: Retry of the storage error alert
RetryPressed(j) ==
    /\ regs[j] = [pc |-> "Storage Error"]
    /\ registering' = FALSE
    /\ regs' = [regs EXCEPT ![j] = Done("Storage Error")]
    /\ UNCHANGED <<crop, cmp, screenVars, img, engineVars>>
    /\ UNCHANGED <<embeds, tensors, store, registered, gallery, screen>>

\* face-registration.tsx lines 149-157, 331-336: Register Another of the
\* success alert, or retaking the photo
RegisterAnotherPressed ==
    /\ screen = "registration"
    /\ registered
    /\ ~registering
    /\ registered' = FALSE
    /\ UNCHANGED <<crop, cmp, screenVars, img, engineVars>>
    /\ UNCHANGED <<embeds, tensors, store, registering, regs, gallery, screen>>

(***************************************************************************)
(* FaceVerificationScreen: verifyFace and                                  *)
(* processGalleryPhotoForVerification with generateFaceEmbedding in full   *)
(***************************************************************************)
VerificationCaller(i) == <<"verifyFace", i>>
GalleryCaller == <<"gallery", 1>>

VerifyFaceOnScreen(i) == screen = "verification" /\ VerifyFaceCalled(i)

\* face-verification.tsx line 154: the call of generateFaceEmbedding that
\* follows the await of processFacePhoto (made in the step in which
\* processFacePhoto settles; no other step reads attempts[i] in between)
VerifyFaceEmbeddingRequested(i) ==
    /\ attempts[i] = "generateFaceEmbedding"
    /\ GenerateFaceEmbeddingCalled(VerificationCaller(i))
    /\ UNCHANGED <<crop, cmp, screenVars, img>>
    /\ UNCHANGED <<tensors, store, registering, registered, regs, gallery, screen>>

\* face-verification.tsx lines 154-159, 192-199 with the null that
\* generateFaceEmbedding returned
VerifyFaceEmbeddingNull(i) ==
    /\ embeds[VerificationCaller(i)] = EmbeddingNull
    /\ EmbeddingFailed(i)

\* face-verification.tsx lines 154-199 with the embedding that
\* generateFaceEmbedding returned
VerifyFaceEmbeddingReady(i) ==
    /\ embeds[VerificationCaller(i)].pc = "returned"
    /\ embeds[VerificationCaller(i)].result.set
    /\ EmbeddingCompared(i)
    /\ cmp'.embedding1 = embeds[VerificationCaller(i)].result.embedding

\* face-verification.tsx lines 288-297
GalleryVerificationCalled ==
    /\ screen = "verification"
    /\ gallery = NotCalled
    /\ isVerifying' = TRUE
    /\ gallery' = [pc |-> "processGalleryPhotoWithDetection"]
    /\ UNCHANGED <<crop, cmp, selectedFace, cameraVars, verificationResult, attempts, alerts, timers>>
    /\ UNCHANGED <<img, engineVars>>
    /\ UNCHANGED <<embeds, tensors, store, registering, registered, regs, screen>>

\* face-verification.tsx lines 339-350: catch and finally
GalleryCatchAndFinally ==
    /\ alerts' = alerts + 1
    /\ isVerifying' = FALSE
    /\ gallery' = Done("Verification Error")

\* face-verification.tsx lines 297-304: the photo is processed and
\* generateFaceEmbedding called, or processing fails
GalleryPhotoProcessed ==
    /\ gallery = [pc |-> "processGalleryPhotoWithDetection"]
    /\ \/ /\ gallery' = [pc |-> "generateFaceEmbedding"]
          /\ GenerateFaceEmbeddingCalled(GalleryCaller)
          /\ UNCHANGED <<isVerifying, alerts>>
       \/ /\ GalleryCatchAndFinally
          /\ UNCHANGED <<engineVars, embeds>>
    /\ UNCHANGED <<crop, cmp, selectedFace, cameraVars, verificationResult, attempts, timers, img>>
    /\ UNCHANGED <<tensors, store, registering, registered, regs, screen>>

\* face-verification.tsx lines 302-350: generateFaceEmbedding has returned
GalleryEmbeddingReturned ==
    /\ gallery = [pc |-> "generateFaceEmbedding"]
    /\ embeds[GalleryCaller].pc = "returned"
    /\ IF ~embeds[GalleryCaller].result.set
       THEN /\ GalleryCatchAndFinally
            /\ UNCHANGED <<cmp, verificationResult, timers>>
       ELSE LET currentEmbedding == embeds[GalleryCaller].result.embedding
                comparisonResult == compareFaces(currentEmbedding, selectedFace.embedding)
            IN  /\ cmp' = [op |-> "compareFaces", by |-> GalleryCaller,
                            embedding1 |-> currentEmbedding,
                            embedding2 |-> selectedFace.embedding,
                            result |-> comparisonResult]
                /\ IF comparisonResult.threw
                   THEN /\ GalleryCatchAndFinally
                        /\ UNCHANGED <<verificationResult, timers>>
                   ELSE /\ verificationResult' =
                               [set |-> TRUE,
                                isMatch |-> comparisonResult.isMatch,
                                confidence |-> comparisonResult.confidence]
                        /\ timers' = timers + 1
                        /\ isVerifying' = FALSE
                        /\ gallery' = Done("compared")
                        /\ UNCHANGED alerts
    /\ UNCHANGED <<crop, selectedFace, cameraVars, attempts, img, engineVars>>
    /\ UNCHANGED <<embeds, tensors, store, registering, registered, regs, screen>>

\* the effect of either screen, lines 47-49 (43-45 of the registration
\* screen): the model is loaded ahead unless it is loaded already
PreloadCaller == <<"loadModel", 0>>
ModelPreloaded ==
    /\ ~isModelLoaded
    /\ LoadModelRequested(PreloadCaller)

MaxRegistrations == 2
Registrations == 1 .. MaxRegistrations
MaxVerifications == 1
Verifications == 1 .. MaxVerifications
PipelineCallers ==
    {PreloadCaller, GalleryCaller}
        \cup {RegistrationCaller(j) : j \in Registrations}
        \cup {VerificationCaller(i) : i \in Verifications}
EmbeddingCallers == PipelineCallers \ {PreloadCaller}

InitPipeline ==
    /\ crop = NoCall /\ cmp = NoCall /\ img = NoCall
    /\ EnginesAsConstructed(PipelineCallers)
    /\ \/ ScreenMounted(<<>>)
          /\ CallsIdle(EmbeddingCallers, Registrations, "registration")
       \/ (\E e \in StoredEmbeddings : ScreenMounted(e))
          /\ CallsIdle(EmbeddingCallers, Registrations, "verification")
NextPipeline ==
    \/ ModelPreloaded
    \/ \E c \in PipelineCallers : LoadModelPolled(c)
    \/ \E c \in PipelineCallers : AssetDownloaded(c)
    \/ \E c \in PipelineCallers : SessionCreated(c)
    \/ \E c \in PipelineCallers : LoadFailed(c)
    \/ \E c \in EmbeddingCallers : SessionObtained(c)
    \/ \E c \in EmbeddingCallers : GrayPixelsRead(c)
    \/ \E c \in EmbeddingCallers : InferenceSettled(c)
    \/ \E j \in Registrations : RegisterFaceCalled(j)
    \/ \E j \in Registrations : RegistrationEmbeddingReturned(j)
    \/ \E j \in Registrations : StoredFacesRead(j)
    \/ \E j \in Registrations : FacesWritten(j)
    \/ \E j \in Registrations : RetryPressed(j)
    \/ RegisterAnotherPressed
    \/ \E i \in Verifications : VerifyFaceOnScreen(i)
    \/ \E i \in Verifications : ProcessFacePhotoSettled(i)
    \/ \E i \in Verifications : VerifyFaceEmbeddingRequested(i)
    \/ \E i \in Verifications : VerifyFaceEmbeddingNull(i)
    \/ \E i \in Verifications : VerifyFaceEmbeddingReady(i)
    \/ ResultTimerFired
    \/ GalleryVerificationCalled
    \/ GalleryPhotoProcessed
    \/ GalleryEmbeddingReturned
SpecPipeline == InitPipeline /\ [][NextPipeline]_vars

(***************************************************************************)
(* Claims about the pipeline                                               *)
(***************************************************************************)
\* loadModel, awaited by the generateFaceEmbedding of caller c, gave null
Unavailable(c) == loads[c] = Returned("recognition", 0)

EmbeddingFailsWhenUnavailable ==
    \A c \in DOMAIN embeds :
        Unavailable(c) => embeds[c] \in {[pc |-> "loadModel"], EmbeddingNull}
RegistrationStopsWhenUnavailable ==
    \A j \in DOMAIN regs :
        Unavailable(RegistrationCaller(j)) =>
            regs[j] \in {[pc |-> "generateFaceEmbedding"], Done("Failed to process face")}
GalleryStopsWhenUnavailable ==
    Unavailable(GalleryCaller) =>
        gallery \in {[pc |-> "generateFaceEmbedding"], Done("Verification Error")}
NoWriteNoResultWhenUnavailable ==
    /\ \A j \in DOMAIN regs :
          Unavailable(RegistrationCaller(j)) /\ regs'[j] # regs[j] =>
              /\ store' = store
              /\ registered' = registered
              /\ ~registering'
    /\ \A i \in Verifications :
          Unavailable(VerificationCaller(i)) /\ attempts'[i] # attempts[i] =>
              /\ verificationResult' = verificationResult
              /\ timers' = timers
              /\ alerts' = alerts + 1
    /\ Unavailable(GalleryCaller) /\ gallery' # gallery =>
          /\ verificationResult' = verificationResult
          /\ timers' = timers
          /\ alerts' = alerts + 1

\* C18: when loadModel yields null, generateFaceEmbedding returns null and
\* no vector, registerFace stops with its alert and writes nothing to the
\* store, and verifyFace and processGalleryPhotoForVerification stop with
\* their alert and set no verification result.
C18_UnavailableEngineStopsCallers ==
    /\ [](EmbeddingFailsWhenUnavailable /\ RegistrationStopsWhenUnavailable
            /\ GalleryStopsWhenUnavailable)
    /\ [][NoWriteNoResultWhenUnavailable]_vars
C18_Witness ==
    /\ Unavailable(RegistrationCaller(1))
    /\ embeds[RegistrationCaller(1)] = EmbeddingNull
    /\ regs[1] = Done("Failed to process face")
    /\ store = <<>>
    /\ ~registered
C18_WitnessVerification ==
    /\ Unavailable(VerificationCaller(1))
    /\ Unavailable(GalleryCaller)
    /\ attempts[1] = "done"
    /\ gallery = Done("Verification Error")
    /\ verificationResult = Null
    /\ alerts = 2

\* C19: every step that changes the store appends to it exactly the record
\* of one registerFace attempt and sets `registered`, and `registered`
\* becomes true only in such a step.
C19_RegistrationAtomic ==
    [][/\ store' # store =>
            /\ \E j \in DOMAIN regs :
                  /\ regs[j].pc = "setItem"
                  /\ store' = Append(store, regs[j].faceData)
            /\ registered'
       /\ registered' /\ ~registered => store' # store]_vars

\* C20: when a call of generateFaceEmbedding has returned, by whichever
\* path, none of the tensors it allocated is still held.
C20_TensorsReleasedOnReturn ==
    \A c \in DOMAIN embeds :
        embeds[c].pc = "returned" => tensors \cap TensorsOf(c) = {}

(***************************************************************************)
(* FaceDebugger.findMostSimilarFace (utils/FaceDebugger.ts lines 18-41,    *)
(* 141-171) over the faces that FaceStorageService.getRegisteredFaces      *)
(* returns                                                                 *)
(***************************************************************************)
\* FaceDebugger.ts lines 18-41: the cosine similarity of the debugger, the
\* same computation as that of the recognition service, on its own copy
DebuggerCosineSimilarity(embedding1, embedding2) ==
    IF Len(embedding1.c) # Len(embedding2.c)
    THEN [threw |-> TRUE, value |-> Zero]
    ELSE IF NormIsZero(embedding1) \/ NormIsZero(embedding2)
    THEN [threw |-> FALSE, value |-> Zero]
    ELSE [threw |-> FALSE,
          value |-> [p |-> 0, n |-> DotNum(embedding1.c, embedding2.c),
                     d |-> SumSq(embedding1.c) * SumSq(embedding2.c)]]

\* x > y for two similarities n / sqrt(d), d > 0
Greater(x, y) ==
    IF x.n > 0 /\ y.n > 0 THEN x.n * x.n * y.d > y.n * y.n * x.d
    ELSE IF x.n < 0 /\ y.n < 0 THEN x.n * x.n * y.d < y.n * y.n * x.d
    ELSE x.n > y.n

NoFace == [found |-> FALSE]

\* the loop of lines 155-161 from index i on, a throw of the similarity
\* ending in the catch block of lines 167-170
RECURSIVE BestFrom(_, _, _, _, _)
BestFrom(targetEmbedding, faces, i, bestMatch, bestSimilarity) ==
    IF i > Len(faces)
    THEN [found |-> TRUE, face |-> bestMatch, similarity |-> bestSimilarity]
    ELSE LET similarity == DebuggerCosineSimilarity(targetEmbedding, faces[i].embedding)
         IN  IF similarity.threw THEN NoFace
             ELSE IF Greater(similarity.value, bestSimilarity)
             THEN BestFrom(targetEmbedding, faces, i + 1, faces[i], similarity.value)
             ELSE BestFrom(targetEmbedding, faces, i + 1, bestMatch, bestSimilarity)

\* findMostSimilarFace whose loop never replaces bestMatch: the similarity
\* of the best, the identity of the first enrolled
findMostSimilarFace_firstEnrolled(targetEmbedding, faces) ==
    IF Len(faces) = 0 THEN NoFace
    ELSE LET first == DebuggerCosineSimilarity(targetEmbedding, faces[1].embedding)
         IN  IF first.threw THEN NoFace
             ELSE LET best == BestFrom(targetEmbedding, faces, 2, faces[1], first.value)
                  IN  IF best.found THEN [best EXCEPT !.face = faces[1]] ELSE NoFace

\* lines 141-171, from the faces read on
findMostSimilarFace(targetEmbedding, faces) ==
    IF Len(faces) = 0 THEN NoFace
    ELSE LET first == DebuggerCosineSimilarity(targetEmbedding, faces[1].embedding)
         IN  IF first.threw THEN NoFace
             ELSE BestFrom(targetEmbedding, faces, 2, faces[1], first.value)

MaxFaces == 3
\* signatures of one length, among them parallel ones (<<1, 0>>, <<2, 0>>),
\* opposite ones, the zero vector, and one of another length
SearchVectors ==
    {<<1, 0>>, <<2, 0>>, <<0, 1>>, <<1, 1>>, <<-1, 0>>, <<3, 4>>, <<1, -1>>, <<0, 0>>,
     <<1, 1, 0>>}
StoredFaces ==
    UNION {{[i \in 1 .. n |-> [id |-> i, embedding |-> Vec(e[i])]] :
                e \in [1 .. n -> SearchVectors]} : n \in 0 .. MaxFaces}

\* lines 145-171: the faces are read (getRegisteredFaces, which gives [] when
\* the read fails) and searched
FindMostSimilarFace ==
    /\ cmp = NoCall
    /\ \E targetEmbedding \in SearchVectors, faces \in {store, <<>>} :
         cmp' = [op |-> "findMostSimilarFace", targetEmbedding |-> Vec(targetEmbedding),
                 faces |-> faces,
                 result |-> findMostSimilarFace(Vec(targetEmbedding), faces)]
    /\ UNCHANGED <<crop, screenVars, pipelineVars>>

InitSearch ==
    /\ crop = NoCall /\ cmp = NoCall /\ img = NoCall
    /\ ScreenMounted(<<>>)
    /\ EnginesAsConstructed({})
    /\ embeds = <<>> /\ tensors = {} /\ regs = <<>> /\ gallery = NotCalled
    /\ registering = FALSE /\ registered = FALSE /\ screen = "none"
    /\ store \in StoredFaces
NextSearch == FindMostSimilarFace
SpecSearch == InitSearch /\ [][NextSearch]_vars

Searched == cmp.op = "findMostSimilarFace"
\* the faces searched are there and of the length of the query
Comparable ==
    /\ Len(cmp.faces) > 0
    /\ \A i \in 1 .. Len(cmp.faces) :
          Len(cmp.faces[i].embedding.c) = Len(cmp.targetEmbedding.c)
CosineTo(face) == DebuggerCosineSimilarity(cmp.targetEmbedding, face.embedding).value

LoadSettles(c) == AssetDownloaded(c) \/ SessionCreated(c) \/ LoadFailed(c)
FairSpecEngine ==
    /\ SpecEngine
    /\ \A c \in DirectCallers : WF_vars(LoadModelPolled(c))
    /\ \A c \in DirectCallers : WF_vars(LoadSettles(c))

Waiting(c) == loads[c] = Awaiting("recognition", "waiting")
ReturnsFromWaiting(c) == Waiting(c) /\ loads'[c] # loads[c]
\* the results of the calls of the recognition service that have returned
Outcomes(callers) ==
    {loads[a].result : a \in {x \in callers : loads[x].pc = "returned"
                                                /\ loads[x].service = "recognition"}}

\* C22 as stated: a caller that arrived during a load returns in the end,
\* returns what the load it waited for gave to the call that performed it
\* (so a result that some other call has returned), and starts no load; and
\* after a failed load nothing is cached.
C22_Original_WaiterReturnsOutcomeOfLoad ==
    /\ \A c \in DirectCallers : Waiting(c) ~> (loads[c].pc = "returned")
    /\ [][\A c \in DirectCallers :
            ReturnsFromWaiting(c) =>
                /\ loads'[c].pc = "returned"
                /\ loads'[c].result \in Outcomes(DirectCallers \ {c})]_vars

WaiterReturnsCachedSession ==
    \A c \in DirectCallers :
        ReturnsFromWaiting(c) =>
            /\ ~isModelLoading
            /\ loads'[c] = Returned("recognition", modelSession)
            /\ modelSession \in {0, created.recognition}
            /\ UNCHANGED <<modelSession, isModelLoading, created>>
            /\ Loading("recognition")' = {}
FailedLoadNotCached ==
    \A c \in DirectCallers :
        /\ (c \in Loading("recognition") /\ loads'[c] = Returned("recognition", 0))
              => (modelSession' = 0 /\ ~isModelLoading')
        /\ (ArrivesAtRecognition(c) /\ modelSession = 0 /\ ~isModelLoading)
              => loads'[c] = Awaiting("recognition", "downloadAsync")

\* C22: a caller that arrived during a load returns in the end (every load
\* settling and the poll timer firing), without starting a load, and with
\* the session cached at the moment its poll finds no load in flight: null,
\* or the latest session created.  After a failed load no session is cached
\* and the next call, with no load in flight, starts a new load.
C22_WaiterReturnsCachedSession ==
    /\ \A c \in DirectCallers : Waiting(c) ~> (loads[c].pc = "returned")
    /\ [][WaiterReturnsCachedSession /\ FailedLoadNotCached]_vars
\* the load of caller 1 has failed, caller 3 has started a new one, and
\* caller 2 is waiting
C22_Witness ==
    /\ loads[<<"loadModel", 1>>] = Returned("recognition", 0)
    /\ Waiting(<<"loadModel", 2>>)
    /\ loads[<<"loadModel", 3>>] = Awaiting("recognition", "downloadAsync")
    /\ modelSession = 0
\* the load succeeded, the session was cleared, and the waiting caller got
\* null
C22_WitnessCleared ==
    /\ loads[<<"loadModel", 1>>] = Returned("recognition", 1)
    /\ loads[<<"loadModel", 2>>] = Returned("recognition", 0)
    /\ loads[<<"loadModel", 3>>] = NotCalled
    /\ created.recognition = 1

(***************************************************************************)
(* FaceVerificationScreen: the face-detection callback with its throttle,  *)
(* takePhoto, verifyFace, the result timer and resetVerification           *)
(* (face-verification.tsx lines 127-254).                                  *)
(*                                                                         *)
(* Time is the reading of Date.now(), taken to be non-decreasing.  The     *)
(* delay of the result timer is not modelled: a timer fires at any time    *)
(* after it was set, the timers in the order in which they were set.       *)
(***************************************************************************)
ThrottleMs == 4000
TickMs == 1000
MaxTicks == 9

\* time passes
Tick ==
    /\ now < StartTime + MaxTicks * TickMs
    /\ now' = now + TickMs
    /\ UNCHANGED <<lastVerificationTime, detections, resetSince>>
    /\ UNCHANGED <<crop, cmp, selectedFace, isVerifying, verificationResult, attempts,
                   alerts, timers, pipelineVars>>

\* handleFacesDetection that starts an attempt without noting its time
\* (line 228 lost)
FacesDetected_timeNotNoted(i) ==
    /\ detections[i] = NotCalled
    /\ \A j \in 1 .. i - 1 : detections[j] # NotCalled
    /\ ~isVerifying
    /\ ~verificationResult.set
    /\ now - lastVerificationTime > ThrottleMs
    /\ detections' = [detections EXCEPT ![i] =
                          [pc |-> "takePhoto", at |-> now, reset |-> resetSince]]
    /\ resetSince' = FALSE
    /\ UNCHANGED <<now, lastVerificationTime>>
    /\ UNCHANGED <<crop, cmp, selectedFace, isVerifying, verificationResult, attempts,
                   alerts, timers, pipelineVars>>

\* lines 202-232: a detection callback with a well positioned face, while
\* nothing is being verified or displayed and more than 4000 ms after
\* lastVerificationTime: the time is noted and the photo taken.  (A callback
\* that fails one of the tests changes nothing.)
FacesDetected(i) ==
    /\ detections[i] = NotCalled
    /\ \A j \in 1 .. i - 1 : detections[j] # NotCalled
    /\ ~isVerifying
    /\ ~verificationResult.set
    /\ now - lastVerificationTime > ThrottleMs
    /\ lastVerificationTime' = now
    /\ detections' = [detections EXCEPT ![i] =
                          [pc |-> "takePhoto", at |-> now, reset |-> resetSince]]
    /\ resetSince' = FALSE
    /\ UNCHANGED now
    /\ UNCHANGED <<crop, cmp, selectedFace, isVerifying, verificationResult, attempts,
                   alerts, timers, pipelineVars>>

\* lines 232-235: takePhoto gives a photo and verifyFace is called with it
PhotoTaken(i) ==
    /\ detections[i] # NotCalled
    /\ VerifyFaceCalled(i)
    /\ isVerifying \/ attempts'[i] = "processFacePhoto"

\* lines 232-233: takePhoto gives no photo and verifyFace is not called
NoPhotoTaken(i) ==
    /\ detections[i] # NotCalled
    /\ attempts[i] = "notCalled"
    /\ \A j \in 1 .. i - 1 : attempts[j] # "notCalled"
    /\ attempts' = [attempts EXCEPT ![i] = "done"]
    /\ UNCHANGED <<crop, cmp, selectedFace, isVerifying, verificationResult, alerts, timers,
                   cameraVars, pipelineVars>>

\* lines 236-239: takePhoto fails
TakePhotoFailed(i) ==
    /\ detections[i] # NotCalled
    /\ attempts[i] = "notCalled"
    /\ \A j \in 1 .. i - 1 : attempts[j] # "notCalled"
    /\ attempts' = [attempts EXCEPT ![i] = "done"]
    /\ isVerifying' = FALSE
    /\ UNCHANGED <<crop, cmp, selectedFace, verificationResult, alerts, timers,
                   cameraVars, pipelineVars>>

\* lines 250-254, from the Try Again button shown with a result (lines
\* 422-433)
resetVerification ==
    /\ verificationResult.set
    /\ verificationResult' = Null
    /\ isVerifying' = FALSE
    /\ lastVerificationTime' = 0
    /\ resetSince' = TRUE
    /\ UNCHANGED <<now, detections>>
    /\ UNCHANGED <<crop, cmp, selectedFace, attempts, alerts, timers, pipelineVars>>

InitScreen ==
    /\ crop = NoCall
    /\ cmp = NoCall
    /\ \E e \in StoredEmbeddings : ScreenMounted(e)
    /\ PipelineIdle
NextScreen ==
    \/ Tick
    \/ \E i \in 1 .. MaxAttempts : FacesDetected(i)
    \/ \E i \in 1 .. MaxAttempts : PhotoTaken(i)
    \/ \E i \in 1 .. MaxAttempts : NoPhotoTaken(i)
    \/ \E i \in 1 .. MaxAttempts : TakePhotoFailed(i)
    \/ \E i \in 1 .. MaxAttempts : ProcessFacePhotoSettled(i)
    \/ \E i \in 1 .. MaxAttempts : EmbeddingFailed(i)
    \/ \E i \in 1 .. MaxAttempts : EmbeddingCompared(i)
    \/ ResultTimerFired
    \/ resetVerification
SpecScreen == InitScreen /\ [][NextScreen]_vars

(***************************************************************************)
(* Properties of the verification screen                                   *)
(***************************************************************************)
Started(i) == detections[i] # NotCalled

\* C25: two consecutive camera-triggered attempts are started at least
\* 4000 ms apart, unless resetVerification ran between their starts.
C25_AttemptsThrottled ==
    \A i \in 2 .. MaxAttempts :
        (Started(i) /\ ~detections[i].reset)
            => detections[i].at - detections[i - 1].at >= ThrottleMs
\* the second attempt started as soon as the throttle let it
C25_Witness ==
    /\ Started(2)
    /\ ~detections[2].reset
    /\ detections[2].at - detections[1].at = ThrottleMs + TickMs
\* after Try Again the next attempt started within the 4000 ms
C25_WitnessReset ==
    /\ Started(2)
    /\ detections[2].reset
    /\ detections[2].at - detections[1].at < ThrottleMs

\* C26: a displayed result is taken down or replaced only by
\* resetVerification or by the firing of its own timer, the one set with
\* it, which is the only one pending when no earlier timer is left.
C26_ResultStaysItsThreeSeconds ==
    [][(verificationResult.set /\ verificationResult' # verificationResult)
            => (resetVerification \/ (timers = 1 /\ timers' = 0))]_vars

\* the attempts in progress: verifyFace past its guard, and
\* processGalleryPhotoForVerification, up to their finally blocks
AttemptsInProgress ==
    {<<"verifyFace", i>> : i \in {k \in DOMAIN attempts :
                                    attempts[k] \in {"processFacePhoto", "generateFaceEmbedding"}}}
        \cup (IF gallery.pc \in {"processGalleryPhotoWithDetection", "generateFaceEmbedding"}
              THEN {GalleryCaller} ELSE {})

\* C27: at most one verification attempt, from the camera or from the
\* gallery, is in progress at any time, and the step that ends an attempt
\* leaves isVerifying false.
C27_OneAttemptAtATime ==
    /\ [](Cardinality(AttemptsInProgress) <= 1)
    /\ [][AttemptsInProgress' # AttemptsInProgress /\ AttemptsInProgress' \subseteq AttemptsInProgress
            => ~isVerifying']_vars

(***************************************************************************)
(* FaceStorageService.saveRegisteredFace and deleteRegisteredFace called   *)
(* directly, the calls overlapping (faceStorage.ts lines 16-59).  regs[j]  *)
(* is the j-th call; the reads of AsyncStorage succeed here.               *)
(***************************************************************************)
MaxStoreCalls == 3
StoreCalls == 1 .. MaxStoreCalls
\* the face that call j saves, and the face stored beforehand
FaceOf(j) == [id |-> j, embedding |-> NormalizeOutput(Vec(<<3, 4>>))]
EarlierFace == FaceOf(0)

RECURSIVE WithoutId(_, _)
\* existingFaces.filter((face) => face.id !== faceId)
WithoutId(faces, faceId) ==
    IF faces = <<>> THEN <<>>
    ELSE IF Head(faces).id = faceId THEN WithoutId(Tail(faces), faceId)
    ELSE <<Head(faces)>> \o WithoutId(Tail(faces), faceId)

\* lines 16-18: saveRegisteredFace is called and awaits getRegisteredFaces
SaveRegisteredFaceCalled(j) ==
    /\ regs[j] = NotCalled
    /\ \A k \in 1 .. j - 1 : regs[k] # NotCalled
    /\ regs' = [regs EXCEPT ![j] = [pc |-> "getItem", faceData |-> FaceOf(j)]]
    /\ UNCHANGED <<crop, cmp, screenVars, img, engineVars>>
    /\ UNCHANGED <<embeds, tensors, store, registering, registered, gallery, screen>>

\* lines 18-21 with a read that succeeds
StoredFacesReadIntact(j) ==
    /\ StoredFacesRead(j)
    /\ regs'[j].updatedFaces = Append(store, regs[j].faceData)

\* lines 21-26: setItem resolves and the call returns, or rejects and the
\* call throws 'Failed to save face data'
SaveSettled(j) ==
    /\ regs[j].pc = "setItem"
    /\ \/ /\ store' = regs[j].updatedFaces
          /\ regs' = [regs EXCEPT ![j] = Done("Face registered and saved locally")]
       \/ /\ regs' = [regs EXCEPT ![j] = Done("Failed to save face data")]
          /\ UNCHANGED store
    /\ UNCHANGED <<crop, cmp, screenVars, img, engineVars>>
    /\ UNCHANGED <<embeds, tensors, registering, registered, gallery, screen>>

\* lines 48-50: deleteRegisteredFace of the face stored beforehand
DeleteRegisteredFaceCalled(j) ==
    /\ regs[j] = NotCalled
    /\ \A k \in 1 .. j - 1 : regs[k] # NotCalled
    /\ regs' = [regs EXCEPT ![j] = [pc |-> "delete.getItem", faceId |-> EarlierFace.id]]
    /\ UNCHANGED <<crop, cmp, screenVars, img, engineVars>>
    /\ UNCHANGED <<embeds, tensors, store, registering, registered, gallery, screen>>

\* lines 50-53: the faces are read and filtered, and setItem awaited
DeleteFacesRead(j) ==
    /\ regs[j].pc = "delete.getItem"
    /\ regs' = [regs EXCEPT ![j] =
                    [pc |-> "delete.setItem", faceId |-> regs[j].faceId,
                     updatedFaces |-> WithoutId(store, regs[j].faceId)]]
    /\ UNCHANGED <<crop, cmp, screenVars, img, engineVars>>
    /\ UNCHANGED <<embeds, tensors, store, registering, registered, gallery, screen>>

\* lines 53-58
DeleteSettled(j) ==
    /\ regs[j].pc = "delete.setItem"
    /\ \/ /\ store' = regs[j].updatedFaces
          /\ regs' = [regs EXCEPT ![j] = Done("Face deleted")]
       \/ /\ regs' = [regs EXCEPT ![j] = Done("Failed to delete face data")]
          /\ UNCHANGED store
    /\ UNCHANGED <<crop, cmp, screenVars, img, engineVars>>
    /\ UNCHANGED <<embeds, tensors, registering, registered, gallery, screen>>

InitStore ==
    /\ crop = NoCall /\ cmp = NoCall /\ img = NoCall
    /\ ScreenMounted(<<>>)
    /\ EnginesAsConstructed({})
    /\ embeds = <<>> /\ tensors = {} /\ gallery = NotCalled
    /\ registering = FALSE /\ registered = FALSE /\ screen = "none"
    /\ regs = [j \in StoreCalls |-> NotCalled]
    /\ store \in {<<>>, <<EarlierFace>>}
NextStore ==
    \/ \E j \in StoreCalls : SaveRegisteredFaceCalled(j)
    \/ \E j \in StoreCalls : StoredFacesReadIntact(j)
    \/ \E j \in StoreCalls : SaveSettled(j)
    \/ \E j \in StoreCalls : DeleteRegisteredFaceCalled(j)
    \/ \E j \in StoreCalls : DeleteFacesRead(j)
    \/ \E j \in StoreCalls : DeleteSettled(j)
SpecStore == InitStore /\ [][NextStore]_vars

StoredIds == {store[p].id : p \in 1 .. Len(store)}
NoCallInFlight == \A j \in DOMAIN regs : regs[j].pc \in {"notCalled", "done"}

\* C28: once the calls have returned, every face whose saveRegisteredFace
\* returned successfully is among the faces stored, whatever the
\* interleaving of the saves with one another and with a
\* deleteRegisteredFace of another id.
C28_NoRegistrationLost ==
    NoCallInFlight =>
        \A j \in DOMAIN regs :
            regs[j] = Done("Face registered and saved locally") => j \in StoredIds

\* C29: a save that returns successfully leaves the store as it was before
\* the call, followed by the new face, also when the read of the store
\* failed or gave text that does not parse.
C29_SaveOnlyAppends ==
    [][\A j \in DOMAIN regs :
          (regs[j].pc = "setItem" /\ regs'[j] = Done("Registration Successful!"))
              => /\ Len(store') = Len(store) + 1
                 /\ \A p \in 1 .. Len(store) : store'[p] = store[p]
                 /\ store'[Len(store')] = regs[j].faceData]_vars

====
